---- MODULE Spec2Model ----
(***************************************************************************)
(* A model of snowstorm's fleet datastore (server/datastore.go) and of the *)
(* concurrent archive-index builder (ngdp/client, NewArchiveMapper).       *)
(*                                                                         *)
(* Go pointers are addresses of a heap: the datastore's maps, a client     *)
(* snapshot and the locals of a running update hold addresses, and the     *)
(* heap maps an address to the object's contents.  An object that nothing  *)
(* refers to any more is collected, as Go's runtime does.                  *)
(***************************************************************************)
EXTENDS Integers, Sequences, FiniteSets, TLC

VARIABLES
    tracking,         \* d.tracking
    cdnInfos,         \* d.cdnInfos:     program -> region -> *CDNInfo
    versionInfos,     \* d.versionInfos: program -> region -> *VersionInfo
    buildConfigs,     \* d.buildConfigs:    CDNHash -> *BuildConfig
    cdnConfigs,       \* d.cdnConfigs:      CDNHash -> *CDNConfig
    encodingMappers,  \* d.encodingMappers: CDNHash -> *encoding.Mapper
    filenameMappers,  \* d.filenameMappers: CDNHash -> FilenameMapper
    archiveMappers,   \* d.archiveMappers:  CDNHash -> *ArchiveMapper
    heap,             \* address -> contents of the object at that address
    upd,              \* per Update call: its position and its locals
    snap,             \* the last value returned by Client
    dl,               \* d.l: who took the writer lock last, and how often
                      \* the update() of each Update call has taken it
    \* One call of NewArchiveMapper:
    archives,         \* the argument archives
    workChan,         \* the unbuffered channel of archive hashes
    resultChan,       \* the unbuffered channel of per-archive maps
    producer,         \* the goroutine that enqueues the archives
    workers,          \* the goroutines that fetch the indices
    merger,           \* the calling goroutine: the range over resultChan, and m
    grp,              \* the errgroup g: its error, and the first error returned to it
    ctx,              \* the context of the group, and the caller's context
    fetches,          \* per archive, the index requests made and how each ended
    ret,              \* what NewArchiveMapper returned
    \* The libraries below the client, each exercised on its own:
    enc,              \* an encoding.Mapper: the file given to NewMapper, m.keys
    \* One call of Client.Fetch and the stream it returns:
    fetchClient,      \* the Client c: c.EncodingMapper and c.ArchiveMapper
    requests,         \* the HTTP requests issued, in order
    fetched,          \* what Fetch returned
    wc,               \* the wrappedCloser: wc.r, wc.c, and its last call
    body,             \* resp.Body: how often its Close was called and succeeded
    \* A blte.Reader over a container:
    blte,             \* the input, the Reader's fields, the bytes delivered
    \* A configtable.Decoder over a table:
    decoder,          \* the input, the Decoder's fields, its last call
    \* One keyvalue.Decode into a struct with a byte-array field:
    kv,               \* the field, the lines decoded so far, the last value
    \* A filename tree made by mndx.ToTree and looked up with Get:
    tree              \* the path map, the directories, the last lookup

dsVars == <<tracking, cdnInfos, versionInfos, buildConfigs, cdnConfigs,
            encodingMappers, filenameMappers, archiveMappers, heap, upd, snap, dl>>

amVars == <<archives, workChan, resultChan, producer, workers, merger, grp, ctx,
            fetches, ret>>

fetchVars == <<fetchClient, requests, fetched, wc, body>>

libVars == <<enc, fetchVars, blte, decoder, kv, tree>>

\* What an action of one library leaves alone.
exceptEnc == <<dsVars, amVars, fetchVars, blte, decoder, kv, tree>>
exceptFetch == <<dsVars, amVars, enc, blte, decoder, kv, tree>>
exceptBlte == <<dsVars, amVars, enc, fetchVars, decoder, kv, tree>>
exceptDecoder == <<dsVars, amVars, enc, fetchVars, blte, kv, tree>>
exceptKV == <<dsVars, amVars, enc, fetchVars, blte, decoder, tree>>
exceptTree == <<dsVars, amVars, enc, fetchVars, blte, decoder, kv>>

vars == <<dsVars, amVars, libVars>>

----------------------------------------------------------------------------
(* Bounds of the model. *)

\* Longest tracking list (Track may be called this many times).
MaxTrack == 2
\* CDN hashes the patch server may announce as build config / CDN config.
MaxHash == 2

\* The (region, program) pairs of the model, written <<region, program>>.
Regions == {"eu", "us"}
Programs == {"hero", "herot"}
Pairs == {<<"eu", "herot">>, <<"us", "herot">>}

Hashes == 1..MaxHash

\* Longest list of archives given to NewArchiveMapper.
MaxArchives == 3
\* The number of workers NewArchiveMapper starts at most (20 in the source).
archiveConcurrentIndexFetches == 2
\* The number of entries in one chunk of an index (170 in the source).
archiveEntriesPerChunk == 2
\* The most entries an archive index of the model has.
MaxEntries == 3

\* The Update calls of the model; the sequential specification runs one.
Updaters == {"u1", "u2"}
Sequential == {"u1"}

Nil == [kind |-> "nil"]    \* a nil pointer
NoErr == ""                \* a nil error

----------------------------------------------------------------------------
(* Content addressing: what the CDN serves under a hash.  Distinct files   *)
(* have distinct hashes, so the encoding file and the root file named by   *)
(* a build config have hashes of their own.                                *)

EncodingHashOf(b) == MaxHash + b
RootHashOf(b) == 2 * MaxHash + b
ArchivesOf(c) == <<3 * MaxHash + c>>

NewCDNInfo(region) == [kind |-> "CDNInfo", Name |-> region]
NewVersionInfo(region, b, c) ==
    [kind |-> "VersionInfo", Region |-> region, BuildConfig |-> b, CDNConfig |-> c]
NewBuildConfig(b) ==
    [kind |-> "BuildConfig", Encoding |-> [CDNHash |-> EncodingHashOf(b)],
     Root |-> RootHashOf(b)]
NewCDNConfig(c) == [kind |-> "CDNConfig", Archives |-> ArchivesOf(c)]
NewEncodingMapper(encodingHash) == [kind |-> "encoding.Mapper", table |-> encodingHash]
NewArchiveMapperObj(archiveList) == [kind |-> "ArchiveMapper", archives |-> archiveList]
NewTree(rootCDNHash) == [kind |-> "TreeDirectory", root |-> rootCDNHash]

----------------------------------------------------------------------------
(* The heap.  An address names the kind of the object, the key it was made  *)
(* for (the pair of an info, the hash of an artifact) and a serial number   *)
(* that tells apart the objects made for the same key that are alive at the *)
(* same time.  Addresses are opaque to the program, which only compares     *)
(* them, so after every step the live objects are renumbered: the object a  *)
(* map holds has serial 0, an object that only a snapshot still holds has   *)
(* the serial of its holder.  An object gets its address when it is stored  *)
(* in a map; until then it is a local of update().                          *)

Addr(kind, program, region, hash, n) == <<kind, program, region, hash, n>>

\* The address under which a step stores a new object, before the renumbering.
NewAddr(kind, program, region, hash) == Addr(kind, program, region, hash, -1)

Range(f) == {f[x] : x \in DOMAIN f}

Inner(m) == UNION {Range(m[p]) : p \in DOMAIN m}

SnapshotFields == {"CDNInfo", "VersionInfo", "BuildConfig", "CDNConfig",
                   "ArchiveMapper", "EncodingMapper", "FilenameMapper"}

\* Addresses held by a snapshot that Client returned.
SnapRoots(sn) == IF sn.err # NoErr THEN {} ELSE {sn[f] : f \in SnapshotFields}

\* Addresses held by the maps of the datastore r.
MapRoots(r) ==
    Inner(r.cdnInfos) \cup Inner(r.versionInfos) \cup Range(r.buildConfigs)
        \cup Range(r.cdnConfigs) \cup Range(r.encodingMappers)
        \cup Range(r.filenameMappers) \cup Range(r.archiveMappers)

\* The holders of snapshots, in the order of their serials: the caller that
\* kept the last value of Client, then the callers of the running updates.
UpdaterOrder == <<"u1", "u2">>

Holders == 1..(Len(UpdaterOrder) + 1)

HolderRoots(r) ==
    [i \in Holders |->
        IF i = 1 THEN SnapRoots(r.snap) ELSE SnapRoots(r.upd[UpdaterOrder[i - 1]].before)]

\* The serial of a live object after the step: mr is what the maps hold, hr
\* what the holders hold.
Serial(mr, hr, a) ==
    IF a \in mr THEN 0
    ELSE CHOOSE i \in Holders : a \in hr[i] /\ \A j \in 1..(i - 1) : a \notin hr[j]

\* The renumbering of the live objects of r.
Canon(r) ==
    LET mr == MapRoots(r)
        hr == HolderRoots(r)
    IN  [a \in mr \cup UNION Range(hr) |-> Addr(a[1], a[2], a[3], a[4], Serial(mr, hr, a))]

CanonMap(ren, m) == [k \in DOMAIN m |-> ren[m[k]]]

CanonSnap(ren, sn) ==
    IF sn.err # NoErr THEN sn
    ELSE [f \in DOMAIN sn |-> IF f \in SnapshotFields THEN ren[sn[f]] ELSE sn[f]]

\* A faulty collector: an object is freed as soon as no map holds it, though
\* a snapshot may still refer to it.
CollectUnmapped(ren, h) ==
    [b \in {x \in Range(ren) : x[5] = 0} |-> h[CHOOSE a \in DOMAIN ren : ren[a] = b]]

\* The garbage collector: the objects that something refers to, at their
\* addresses after the step.
Collect(ren, h) == [b \in Range(ren) |-> h[CHOOSE a \in DOMAIN ren : ren[a] = b]]

EmptyMap == [x \in {} |-> Nil]

\* m[k] = v of a Go map.
Put(m, k, v) == [x \in (DOMAIN m) \cup {k} |-> IF x = k THEN v ELSE m[x]]

\* delete(m, k) for every k of ks.
DeleteAll(m, ks) == [x \in (DOMAIN m) \ ks |-> m[x]]

----------------------------------------------------------------------------
(* Client: the snapshot of one pair, or the error it returns. *)

Missing(what, region, program) ==
    [err |-> what, region |-> region, program |-> program]

HasEntry(m, region, program) == program \in DOMAIN m /\ region \in DOMAIN m[program]

Client(region, program) ==
    IF ~HasEntry(cdnInfos, region, program)
    THEN Missing("CDNInfo missing", region, program)
    \* versionInfos is read without looking at ok: a missing entry is a nil
    \* *VersionInfo, dereferenced on the next line.
    ELSE IF ~HasEntry(versionInfos, region, program)
    THEN Missing("panic: nil VersionInfo", region, program)
    ELSE LET versionInfo == versionInfos[program][region]
             v == heap[versionInfo]
         IN  IF v.BuildConfig \notin DOMAIN buildConfigs
             THEN Missing("BuildConfig missing", region, program)
             ELSE IF v.CDNConfig \notin DOMAIN cdnConfigs
             THEN Missing("CDNConfig missing", region, program)
             ELSE IF v.BuildConfig \notin DOMAIN encodingMappers
             THEN Missing("EncodingMapper missing", region, program)
             ELSE IF v.BuildConfig \notin DOMAIN filenameMappers
             THEN Missing("FilenameMapper missing", region, program)
             ELSE IF v.CDNConfig \notin DOMAIN archiveMappers
             THEN Missing("ArchiveMapper missing", region, program)
             ELSE [err |-> NoErr, region |-> region, program |-> program,
                   CDNInfo |-> cdnInfos[program][region],
                   VersionInfo |-> versionInfo,
                   BuildConfig |-> buildConfigs[v.BuildConfig],
                   CDNConfig |-> cdnConfigs[v.CDNConfig],
                   ArchiveMapper |-> archiveMappers[v.CDNConfig],
                   EncodingMapper |-> encodingMappers[v.BuildConfig],
                   FilenameMapper |-> filenameMappers[v.BuildConfig]]

----------------------------------------------------------------------------
(* Update: one pass over the tracked pairs, then the eviction.  upd[u] is  *)
(* the frame of Update call u: pc, the copy of the tracking list, the loop *)
(* index, the variable err, and the locals of the running update().  An    *)
(* error value is the number of the update() call of the pass that made it *)
(* (errors.Wrap makes a new error each time), 0 is nil.  The frame         *)
(* also keeps what the pass wrote to the log: attempts, one entry per      *)
(* update() that returned ("Updating p/r", and whether "Error updating     *)
(* p/r" followed).  before is the snapshot the caller of update() held of  *)
(* the pair when update() was entered, changed what Client returned        *)
(* differently for that pair when the failed update() returned, and        *)
(* beforeContents what the caller had read in the objects of before.       *)

NoVersion == [Region |-> "", BuildConfig |-> 0, CDNConfig |-> 0]
NoSnapshot == [err |-> "none", region |-> "", program |-> ""]
NoContents == [err |-> "none", of |-> EmptyMap]
NoDelete == [ran |-> FALSE, buildConfigs |-> {}, cdnConfigs |-> {},
             encodingMappers |-> {}, filenameMappers |-> {}, archiveMappers |-> {}]

IdleFrame ==
    [pc |-> "idle", tracking |-> <<>>, idx |-> 1, err |-> 0,
     attempts |-> <<>>, changed |-> {}, beforeContents |-> NoContents,
     version |-> NoVersion, buildConfig |-> Nil, cdnConfig |-> Nil,
     encodingMapper |-> Nil, archiveMapper |-> Nil, tree |-> Nil,
     before |-> NoSnapshot, toDelete |-> NoDelete]

\* The locals of update() are gone when it returns.
ClearLocals(st) ==
    [st EXCEPT !.version = NoVersion, !.buildConfig = Nil, !.cdnConfig = Nil,
               !.encodingMapper = Nil, !.archiveMapper = Nil, !.tree = Nil,
               !.before = NoSnapshot]

\* What differs between two values returned by Client: the error, or the
\* fields that hold another object.
Changed(before, after) ==
    IF before.err # after.err THEN {"err"}
    ELSE IF before.err # NoErr THEN {}
    ELSE {f \in SnapshotFields : before[f] # after[f]}

\* What a caller reads in the objects of a value returned by Client.
Contents(sn) ==
    [err |-> sn.err,
     of |-> IF sn.err # NoErr THEN EmptyMap ELSE [f \in SnapshotFields |-> heap[sn[f]]]]

\* The log line of an update() that returned.
Attempt(st, failed) ==
    [region |-> st.tracking[st.idx].Region, program |-> st.tracking[st.idx].Program,
     failed |-> failed]

\* The loop of Update as it would be if it returned at the first error.
FailedAbort(st, why) ==
    [ClearLocals(st) EXCEPT
        !.pc = "done",
        !.err = st.idx,
        !.attempts = Append(@, Attempt(st, TRUE)),
        !.changed = Changed(st.before, Client(st.tracking[st.idx].Region,
                                              st.tracking[st.idx].Program)),
        !.beforeContents = Contents(st.before),
        !.idx = @ + 1]

\* update() returns the error of the step `why` to the loop of Update:
\* err = d.update(...), the error is logged, and the loop goes on.
Failed(st, why) ==
    [ClearLocals(st) EXCEPT
        !.pc = "loop",
        !.err = st.idx,
        !.attempts = Append(@, Attempt(st, TRUE)),
        !.changed = Changed(st.before, Client(st.tracking[st.idx].Region,
                                              st.tracking[st.idx].Program)),
        !.beforeContents = Contents(st.before),
        !.idx = @ + 1]

\* update() returns nil to the loop of Update.
Succeeded(st) ==
    [ClearLocals(st) EXCEPT
        !.pc = "loop",
        !.err = 0,
        !.attempts = Append(@, Attempt(st, FALSE)),
        !.changed = {},
        !.beforeContents = NoContents,
        !.idx = @ + 1]

\* The datastore, the frames and the kept snapshot as one record.
Cur ==
    [tracking |-> tracking, cdnInfos |-> cdnInfos, versionInfos |-> versionInfos,
     buildConfigs |-> buildConfigs, cdnConfigs |-> cdnConfigs,
     encodingMappers |-> encodingMappers, filenameMappers |-> filenameMappers,
     archiveMappers |-> archiveMappers, heap |-> heap, upd |-> upd, snap |-> snap,
     dl |-> dl]

\* d.l.Lock() by Track, by the update() of Update call u, and by Update.
LockedByTrack == [dl EXCEPT !.writer = "Track"]
LockedByupdate(u) == [dl EXCEPT !.writer = "update", !.locks[u] = @ + 1]
LockedByUpdate == [dl EXCEPT !.writer = "Update"]

\* update() is entered by Update call u: it has not taken the lock yet.
Entered(u) == [Cur EXCEPT !.dl.locks[u] = 0]

\* The step to r: r, with the heap collected and renumbered.
Step(r) ==
    LET ren == Canon(r) IN
    /\ tracking' = r.tracking
    /\ cdnInfos' = [p \in DOMAIN r.cdnInfos |-> CanonMap(ren, r.cdnInfos[p])]
    /\ versionInfos' = [p \in DOMAIN r.versionInfos |-> CanonMap(ren, r.versionInfos[p])]
    /\ buildConfigs' = CanonMap(ren, r.buildConfigs)
    /\ cdnConfigs' = CanonMap(ren, r.cdnConfigs)
    /\ encodingMappers' = CanonMap(ren, r.encodingMappers)
    /\ filenameMappers' = CanonMap(ren, r.filenameMappers)
    /\ archiveMappers' = CanonMap(ren, r.archiveMappers)
    /\ upd' = [u \in DOMAIN r.upd |->
                  [r.upd[u] EXCEPT !.before = CanonSnap(ren, r.upd[u].before)]]
    /\ snap' = CanonSnap(ren, r.snap)
    /\ heap' = Collect(ren, r.heap)
    /\ dl' = r.dl
    /\ UNCHANGED <<amVars, libVars>>

\* A faulty Track: the pair is appended, the inner maps are not made.
TrackWithoutMaps(region, program) ==
    /\ Len(tracking) < MaxTrack
    /\ Step([Cur EXCEPT
             !.tracking = Append(tracking, [Region |-> region, Program |-> program]),
             !.dl = LockedByTrack])

\* Track appends the pair and makes the inner maps of the program.
Track(region, program) ==
    /\ Len(tracking) < MaxTrack
    /\ Step([Cur EXCEPT
             !.cdnInfos = IF program \in DOMAIN cdnInfos THEN cdnInfos
                          ELSE Put(cdnInfos, program, EmptyMap),
             !.versionInfos = IF program \in DOMAIN versionInfos THEN versionInfos
                              ELSE Put(versionInfos, program, EmptyMap),
             !.tracking = Append(tracking, [Region |-> region, Program |-> program]),
             !.dl = LockedByTrack])

\* Tracking returns the list.
Tracking == tracking

\* A caller takes a snapshot and keeps it, with what it read in its objects.
Kept(sn) ==
    IF sn.err # NoErr THEN sn
    ELSE [f \in (DOMAIN sn) \cup {"seen"} |->
             IF f = "seen" THEN [g \in SnapshotFields |-> heap[sn[g]]] ELSE sn[f]]

ClientCall(region, program) ==
    /\ <<region, program>> \in Regions \X Programs
    /\ Step([Cur EXCEPT !.snap = Kept(Client(region, program))])

\* Update starts: the tracking list is copied under the read lock.
UpdateStart(u) ==
    /\ upd[u].pc = "idle"
    /\ Step([Cur EXCEPT !.upd[u] = [IdleFrame EXCEPT !.pc = "loop",
                                                     !.tracking = tracking]])

\* update(): Info, the first read of the maps and, when a config is missing,
\* Configs.  The patch server announces any version.
UpdateInfo(u) ==
    LET st == upd[u] IN
    /\ st.pc = "loop"
    /\ st.idx <= Len(st.tracking)
    /\ LET t == st.tracking[st.idx]
           st0 == [st EXCEPT !.before = Client(t.Region, t.Program), !.changed = {},
                             !.beforeContents = NoContents]
       IN
       \/ Step([Entered(u) EXCEPT !.upd[u] = Failed(st0, "retrieving info")])
       \/ \E b \in Hashes, c \in Hashes :
            LET version == [Region |-> t.Region, BuildConfig |-> b, CDNConfig |-> c]
                haveBuildConfig == b \in DOMAIN buildConfigs
                haveCDNConfig == c \in DOMAIN cdnConfigs
                st1 == [st0 EXCEPT !.version = version]
            IN
            IF haveBuildConfig /\ haveCDNConfig
            THEN Step([Entered(u) EXCEPT !.upd[u] =
                          [st1 EXCEPT !.pc = "readMappers",
                                      !.buildConfig = heap[buildConfigs[b]],
                                      !.cdnConfig = heap[cdnConfigs[c]]]])
            ELSE \/ Step([Entered(u) EXCEPT !.upd[u] = Failed(st1, "retrieving configs")])
                 \/ Step([Entered(u) EXCEPT !.upd[u] =
                             [st1 EXCEPT !.pc = "installConfigs",
                                         !.buildConfig = NewBuildConfig(b),
                                         !.cdnConfig = NewCDNConfig(c)]])

\* A faulty update(): the version is committed together with the configs,
\* before the mappers and the filename map exist.
InstallConfigsCommit(u) ==
    LET st == upd[u]
        t == st.tracking[st.idx]
        b == st.version.BuildConfig
        c == st.version.CDNConfig
        pb == NewAddr("BuildConfig", "", "", b)
        pc == NewAddr("CDNConfig", "", "", c)
        pv == NewAddr("VersionInfo", t.Program, t.Region, 0)
        pi == NewAddr("CDNInfo", t.Program, t.Region, 0)
    IN
    /\ st.pc = "installConfigs"
    /\ Step([Cur EXCEPT !.dl = LockedByupdate(u),
                        !.buildConfigs = Put(buildConfigs, b, pb),
                        !.cdnConfigs = Put(cdnConfigs, c, pc),
                        !.cdnInfos[t.Program] = Put(@, t.Region, pi),
                        !.versionInfos[t.Program] = Put(@, t.Region, pv),
                        !.heap = (pb :> st.buildConfig) @@ (pc :> st.cdnConfig)
                                 @@ (pi :> NewCDNInfo(t.Region))
                                 @@ (pv :> NewVersionInfo(t.Region, b, c)) @@ heap,
                        !.upd[u].pc = "readMappers"])

\* Both configs are stored under the writer lock.
InstallConfigs(u) ==
    LET st == upd[u]
        b == st.version.BuildConfig
        c == st.version.CDNConfig
        pb == NewAddr("BuildConfig", "", "", b)
        pc == NewAddr("CDNConfig", "", "", c)
    IN
    /\ st.pc = "installConfigs"
    /\ Step([Cur EXCEPT !.dl = LockedByupdate(u),
                        !.buildConfigs = Put(buildConfigs, b, pb),
                        !.cdnConfigs = Put(cdnConfigs, c, pc),
                        !.heap = (pb :> st.buildConfig) @@ (pc :> st.cdnConfig) @@ heap,
                        !.upd[u].pc = "readMappers"])

\* The second read of the maps and, when a mapper is missing, Mappers, which
\* builds both or fails.
ReadMappers(u) ==
    LET st == upd[u]
        b == st.version.BuildConfig
        c == st.version.CDNConfig
        haveEncodingMapper == b \in DOMAIN encodingMappers
        haveArchiveMapper == c \in DOMAIN archiveMappers
    IN
    /\ st.pc = "readMappers"
    /\ IF haveEncodingMapper /\ haveArchiveMapper
       THEN Step([Cur EXCEPT !.upd[u] =
                     [st EXCEPT !.pc = "readFilename",
                                !.encodingMapper = heap[encodingMappers[b]],
                                !.archiveMapper = heap[archiveMappers[c]]]])
       ELSE \/ Step([Cur EXCEPT !.upd[u] = Failed(st, "retrieving mappers")])
            \/ Step([Cur EXCEPT !.upd[u] =
                        [st EXCEPT !.pc = "installMappers",
                                   !.encodingMapper =
                                       NewEncodingMapper(st.buildConfig.Encoding.CDNHash),
                                   !.archiveMapper =
                                       NewArchiveMapperObj(st.cdnConfig.Archives)]])

\* A faulty update(): the encoding mapper is stored under the hash of the
\* encoding file instead of the hash of the build config.
InstallMappersByEncodingHash(u) ==
    LET st == upd[u]
        e == st.buildConfig.Encoding.CDNHash
        c == st.version.CDNConfig
        pe == NewAddr("encoding.Mapper", "", "", e)
        pa == NewAddr("ArchiveMapper", "", "", c)
    IN
    /\ st.pc = "installMappers"
    /\ Step([Cur EXCEPT !.dl = LockedByupdate(u),
                        !.encodingMappers = Put(encodingMappers, e, pe),
                        !.archiveMappers = Put(archiveMappers, c, pa),
                        !.heap = (pe :> st.encodingMapper) @@ (pa :> st.archiveMapper)
                                     @@ heap,
                        !.upd[u].pc = "readFilename"])

\* Both mappers are stored under the writer lock.
InstallMappers(u) ==
    LET st == upd[u]
        b == st.version.BuildConfig
        c == st.version.CDNConfig
        pe == NewAddr("encoding.Mapper", "", "", b)
        pa == NewAddr("ArchiveMapper", "", "", c)
    IN
    /\ st.pc = "installMappers"
    /\ Step([Cur EXCEPT !.dl = LockedByupdate(u),
                        !.encodingMappers = Put(encodingMappers, b, pe),
                        !.archiveMappers = Put(archiveMappers, c, pa),
                        !.heap = (pe :> st.encodingMapper) @@ (pa :> st.archiveMapper)
                                     @@ heap,
                        !.upd[u].pc = "readFilename"])

\* The steps of building the filename map that can fail, in order.
FilenameErrors == {"mapping root file hash to CDN hash", "fetching root file",
                   "parsing filename map", "treeifying filename map"}

\* The third read of the maps and, when the filename mapper is missing, the
\* root lookup, the root fetch, the parse and the tree.
ReadFilename(u) ==
    LET st == upd[u]
        haveFilenameMapper == st.version.BuildConfig \in DOMAIN filenameMappers
    IN
    /\ st.pc = "readFilename"
    /\ IF haveFilenameMapper
       THEN Step([Cur EXCEPT !.upd[u].pc = "commit"])
       ELSE \/ \E e \in FilenameErrors : Step([Cur EXCEPT !.upd[u] = Failed(st, e)])
            \/ Step([Cur EXCEPT !.upd[u] =
                        [st EXCEPT !.pc = "installFilename",
                                   !.tree = NewTree(st.buildConfig.Root)]])

\* The tree is stored under the writer lock.
InstallFilename(u) ==
    LET st == upd[u]
        b == st.version.BuildConfig
        pt == NewAddr("TreeDirectory", "", "", b)
    IN
    /\ st.pc = "installFilename"
    /\ Step([Cur EXCEPT !.dl = LockedByupdate(u),
                        !.filenameMappers = Put(filenameMappers, b, pt),
                        !.heap = (pt :> st.tree) @@ heap,
                        !.upd[u].pc = "commit"])

\* A faulty update(): the two infos are written without the writer lock.
CommitUnlocked(u) ==
    LET st == upd[u]
        t == st.tracking[st.idx]
        pi == NewAddr("CDNInfo", t.Program, t.Region, 0)
        pv == NewAddr("VersionInfo", t.Program, t.Region, 0)
    IN
    /\ st.pc = "commit"
    /\ t.Program \in DOMAIN cdnInfos
    /\ t.Program \in DOMAIN versionInfos
    /\ Step([Cur EXCEPT
                        !.cdnInfos[t.Program] = Put(@, t.Region, pi),
             !.versionInfos[t.Program] = Put(@, t.Region, pv),
             !.heap = (pi :> NewCDNInfo(t.Region))
                      @@ (pv :> NewVersionInfo(t.Region, st.version.BuildConfig,
                                               st.version.CDNConfig)) @@ heap,
             !.upd[u] = Succeeded(st)])

\* d.cdnInfos[program][region] = &cdn; d.versionInfos[program][region] = &version.
\* A write to the inner map of a program that has none is a write to a nil map.
Commit(u) ==
    LET st == upd[u]
        t == st.tracking[st.idx]
        pi == NewAddr("CDNInfo", t.Program, t.Region, 0)
        pv == NewAddr("VersionInfo", t.Program, t.Region, 0)
    IN
    /\ st.pc = "commit"
    /\ t.Program \in DOMAIN cdnInfos
    /\ t.Program \in DOMAIN versionInfos
    /\ Step([Cur EXCEPT !.dl = LockedByupdate(u),
                        !.cdnInfos[t.Program] = Put(@, t.Region, pi),
             !.versionInfos[t.Program] = Put(@, t.Region, pv),
             !.heap = (pi :> NewCDNInfo(t.Region))
                      @@ (pv :> NewVersionInfo(t.Region, st.version.BuildConfig,
                                               st.version.CDNConfig)) @@ heap,
             !.upd[u] = Succeeded(st)])

\* The hashes the committed versions refer to.
UsedBuildConfigs == {heap[v].BuildConfig : v \in Inner(versionInfos)}

\* A faulty eviction: the CDN configs in use are taken from the build config
\* hashes of the versions.
UsedCDNConfigsFromBuild == {heap[v].BuildConfig : v \in Inner(versionInfos)}

UsedCDNConfigs == {heap[v].CDNConfig : v \in Inner(versionInfos)}

\* A faulty eviction: nothing is found to delete.
ToDeleteNothing(m, used) == {}

\* toDelete: the keys of m that no committed version refers to.
ToDelete(m, used) == {h \in DOMAIN m : h \notin used}

\* The end of the pass: the eviction, under the writer lock, and the return
\* of err.
Evict(u) ==
    LET st == upd[u]
        del == [ran |-> TRUE,
                buildConfigs |-> ToDelete(buildConfigs, UsedBuildConfigs),
                cdnConfigs |-> ToDelete(cdnConfigs, UsedCDNConfigs),
                encodingMappers |-> ToDelete(encodingMappers, UsedBuildConfigs),
                filenameMappers |-> ToDelete(filenameMappers, UsedBuildConfigs),
                archiveMappers |-> ToDelete(archiveMappers, UsedCDNConfigs)]
    IN
    /\ st.pc = "loop"
    /\ st.idx > Len(st.tracking)
    /\ Step([Cur EXCEPT !.dl = LockedByUpdate,
             !.buildConfigs = DeleteAll(buildConfigs, del.buildConfigs),
             !.cdnConfigs = DeleteAll(cdnConfigs, del.cdnConfigs),
             !.encodingMappers = DeleteAll(encodingMappers, del.encodingMappers),
             !.filenameMappers = DeleteAll(filenameMappers, del.filenameMappers),
             !.archiveMappers = DeleteAll(archiveMappers, del.archiveMappers),
             !.upd[u] = [st EXCEPT !.pc = "done", !.toDelete = del]])

\* Update has returned err to its caller; its frame is gone.
UpdateReturn(u) ==
    /\ upd[u].pc = "done"
    /\ Step([Cur EXCEPT !.upd[u] = IdleFrame, !.dl.locks[u] = 0])

----------------------------------------------------------------------------
(* The archive indices.  An index is a sequence of chunks of                *)
(* archiveEntriesPerChunk entries; the last chunk is padded with all-zero   *)
(* entries and a footer shorter than a chunk follows it.  The index of an   *)
(* archive holds the files of that archive only, under keys of their own.   *)

ArchiveList(n) == [i \in 1..n |-> 3 * MaxHash + i]

EntryCount(a) == (a % MaxEntries) + 1

Zero == [key |-> 0, size |-> 0, offset |-> 0]

IndexEntry(a, j) == [key |-> a * (MaxEntries + 1) + j, size |-> j, offset |-> j - 1]

IndexEntries(a) == [j \in 1..EntryCount(a) |-> IndexEntry(a, j)]

ZeroPadded(s) ==
    s \o [i \in 1..((archiveEntriesPerChunk - (Len(s) % archiveEntriesPerChunk))
                        % archiveEntriesPerChunk) |-> Zero]

IndexChunks(a) ==
    LET s == ZeroPadded(IndexEntries(a))
    IN  [k \in 1..(Len(s) \div archiveEntriesPerChunk) |->
            SubSeq(s, (k - 1) * archiveEntriesPerChunk + 1, k * archiveEntriesPerChunk)]

\* What llc.get and the reads of the body can give for the index of archive
\* a: err is the error of get, chunks the full chunks the body delivers and
\* end the error of the read after them.  A body that ends in less than a
\* chunk ends in ErrUnexpectedEOF: the footer of a complete index, the cut of
\* a transfer that broke, the error page of an answer that is not 200 (get
\* returns such an answer without an error and the status is not looked at).
Responses(a) ==
    {[outcome |-> "ok", err |-> NoErr, chunks |-> IndexChunks(a),
      end |-> "ErrUnexpectedEOF"],
     [outcome |-> "get error", err |-> "get error", chunks |-> <<>>, end |-> ""],
     [outcome |-> "read error", err |-> NoErr, chunks |-> <<>>, end |-> "read error"],
     [outcome |-> "bad status", err |-> NoErr, chunks |-> <<>>,
      end |-> "ErrUnexpectedEOF"]}
    \cup {[outcome |-> "truncated", err |-> NoErr,
           chunks |-> SubSeq(IndexChunks(a), 1, k), end |-> "ErrUnexpectedEOF"] :
             k \in 0..(Len(IndexChunks(a)) - 1)}

\* A faulty merge: the map received last replaces m.
MergeReplace(m, miniMap) == miniMap

\* for k, v := range miniMap { m[k] = v }
Merge(m, miniMap) ==
    [k \in (DOMAIN m) \cup (DOMAIN miniMap) |->
        IF k \in DOMAIN miniMap THEN miniMap[k] ELSE m[k]]

\* The entries of one chunk: those before the first all-zero entry.  archive
\* points to the parameter archiveHash of this call of buildArchiveMap, which
\* nothing writes, so the entry is written with the hash.
ParseChunk(chunk, archiveHash) ==
    LET zeros == {n \in 1..Len(chunk) : chunk[n] = Zero}
        stop == IF zeros = {} THEN Len(chunk) + 1
                ELSE CHOOSE n \in zeros : \A z \in zeros : n <= z
        last(k) == CHOOSE n \in 1..(stop - 1) :
                       /\ chunk[n].key = k
                       /\ \A j \in (n + 1)..(stop - 1) : chunk[j].key # k
    IN  [k \in {chunk[n].key : n \in 1..(stop - 1)} |->
            [archive |-> archiveHash, size |-> chunk[last(k)].size,
             offset |-> chunk[last(k)].offset]]

RECURSIVE ParseChunks(_, _, _)
ParseChunks(chunks, archiveHash, m) ==
    IF chunks = <<>> THEN m
    ELSE ParseChunks(Tail(chunks), archiveHash,
                     Merge(m, ParseChunk(Head(chunks), archiveHash)))

\* buildArchiveMap: the map of the index, or the error.
buildArchiveMap(resp, archiveHash) ==
    IF resp.err # NoErr THEN [m |-> Nil, err |-> resp.err]
    ELSE IF resp.end \notin {"ErrUnexpectedEOF", "EOF"}
    THEN [m |-> Nil, err |-> resp.end]
    ELSE [m |-> ParseChunks(resp.chunks, archiveHash, EmptyMap), err |-> NoErr]

----------------------------------------------------------------------------
(* NewArchiveMapper: the producer, the workers, the goroutine that closes  *)
(* resultChan and the calling goroutine that merges.  Both channels are    *)
(* unbuffered: a send is one step with the receive it meets.               *)

Min(a, b) == IF a < b THEN a ELSE b

workerCount == Min(archiveConcurrentIndexFetches, Len(archives))

IdleWorker == [pc |-> "recv", archiveHash |-> 0, m |-> EmptyMap]

NotReturned == [returned |-> FALSE, mapper |-> Nil, err |-> NoErr]

\* No call of NewArchiveMapper is running.
NoCall ==
    /\ archives = <<>>
    /\ workChan = [closed |-> TRUE]
    /\ resultChan = [closed |-> TRUE]
    /\ producer = [pc |-> "returned", i |-> 1]
    /\ workers = <<>>
    /\ merger = [pc |-> "returned", miniMap |-> EmptyMap, m |-> EmptyMap]
    /\ grp = [err |-> NoErr, first |-> NoErr]
    /\ ctx = [done |-> FALSE, parent |-> FALSE]
    /\ fetches = EmptyMap
    /\ ret = NotReturned

\* The call NewArchiveMapper(ctx, cdnInfo, list), all goroutines started.
Called(list) ==
    /\ archives = list
    /\ workChan = [closed |-> FALSE]
    /\ resultChan = [closed |-> FALSE]
    /\ producer = [pc |-> "send", i |-> 1]
    /\ workers = [w \in 1..Min(archiveConcurrentIndexFetches, Len(list)) |-> IdleWorker]
    /\ merger = [pc |-> "range", miniMap |-> EmptyMap, m |-> EmptyMap]
    /\ grp = [err |-> NoErr, first |-> NoErr]
    /\ ctx = [done |-> FALSE, parent |-> FALSE]
    /\ fetches = [a \in Range(list) |-> <<>>]
    /\ ret = NotReturned

\* The first error that a goroutine of the group has returned.
FirstReturned(err) == IF err # NoErr /\ grp.first = NoErr THEN err ELSE grp.first

\* A faulty group: it keeps the error returned last.
GroupReturnLast(err) ==
    /\ grp' = [err |-> IF err # NoErr THEN err ELSE grp.err, first |-> FirstReturned(err)]
    /\ ctx' = IF err # NoErr /\ grp.err = NoErr THEN [ctx EXCEPT !.done = TRUE] ELSE ctx

\* A faulty group, made without WithContext: it keeps its first error and
\* cancels nothing.
GroupReturnNoCancel(err) ==
    /\ grp' = [err |-> IF err # NoErr /\ grp.err = NoErr THEN err ELSE grp.err,
               first |-> FirstReturned(err)]
    /\ ctx' = ctx

\* A goroutine of the group returns err: the group keeps its first error
\* and cancels the context when it gets it.
GroupReturn(err) ==
    /\ grp' = [err |-> IF err # NoErr /\ grp.err = NoErr THEN err ELSE grp.err,
               first |-> FirstReturned(err)]
    /\ ctx' = IF err # NoErr /\ grp.err = NoErr THEN [ctx EXCEPT !.done = TRUE] ELSE ctx

\* case workChan <- archiveHash, met by the range of worker w.
ProducerSend(w) ==
    /\ producer.pc = "send"
    /\ producer.i <= Len(archives)
    /\ w \in DOMAIN workers
    /\ workers[w].pc = "recv"
    /\ workers' = [workers EXCEPT ![w] = [pc |-> "fetch",
                                          archiveHash |-> archives[producer.i],
                                          m |-> EmptyMap]]
    /\ producer' = [producer EXCEPT !.i = @ + 1]
    /\ UNCHANGED <<libVars, dsVars, archives, workChan, resultChan, merger, grp, ctx,
                   fetches, ret>>

\* case <-ctx.Done(): the producer returns ctx.Err() and closes workChan.
ProducerCancelled ==
    /\ producer.pc = "send"
    /\ producer.i <= Len(archives)
    /\ ctx.done
    /\ producer' = [producer EXCEPT !.pc = "returned"]
    /\ workChan' = [closed |-> TRUE]
    /\ GroupReturn("context canceled")
    /\ UNCHANGED <<libVars, dsVars, archives, resultChan, workers, merger, fetches, ret>>

\* The producer has sent every archive: it returns nil and closes workChan.
ProducerFinish ==
    /\ producer.pc = "send"
    /\ producer.i > Len(archives)
    /\ producer' = [producer EXCEPT !.pc = "returned"]
    /\ workChan' = [closed |-> TRUE]
    /\ GroupReturn(NoErr)
    /\ UNCHANGED <<libVars, dsVars, archives, resultChan, workers, merger, fetches, ret>>

\* The range over workChan ends: worker w returns nil.
WorkerExit(w) ==
    /\ w \in DOMAIN workers
    /\ workers[w].pc = "recv"
    /\ workChan.closed
    /\ workers' = [workers EXCEPT ![w].pc = "returned"]
    /\ GroupReturn(NoErr)
    /\ UNCHANGED <<libVars, dsVars, archives, workChan, resultChan, producer, merger,
                   fetches, ret>>

\* Worker w calls buildArchiveMap and returns its error, if any.
WorkerFetch(w) ==
    /\ w \in DOMAIN workers
    /\ workers[w].pc = "fetch"
    /\ \E resp \in Responses(workers[w].archiveHash) :
         LET built == buildArchiveMap(resp, workers[w].archiveHash) IN
         /\ fetches' = [fetches EXCEPT ![workers[w].archiveHash] = Append(@, resp.outcome)]
         /\ IF built.err # NoErr
            THEN /\ workers' = [workers EXCEPT ![w].pc = "returned"]
                 /\ GroupReturn(built.err)
            ELSE /\ workers' = [workers EXCEPT ![w].pc = "send", ![w].m = built.m]
                 /\ UNCHANGED <<grp, ctx>>
    /\ UNCHANGED <<libVars, dsVars, archives, workChan, resultChan, producer, merger, ret>>

\* case resultChan <- m, met by the range of the calling goroutine.
WorkerSend(w) ==
    /\ w \in DOMAIN workers
    /\ workers[w].pc = "send"
    /\ merger.pc = "range"
    /\ ~resultChan.closed
    /\ merger' = [merger EXCEPT !.pc = "merge", !.miniMap = workers[w].m]
    /\ workers' = [workers EXCEPT ![w] = IdleWorker]
    /\ UNCHANGED <<libVars, dsVars, archives, workChan, resultChan, producer, grp, ctx,
                   fetches, ret>>

\* case <-ctx.Done(): worker w drops its map and returns ctx.Err().
WorkerCancelled(w) ==
    /\ w \in DOMAIN workers
    /\ workers[w].pc = "send"
    /\ ctx.done
    /\ workers' = [workers EXCEPT ![w].pc = "returned", ![w].m = EmptyMap]
    /\ GroupReturn("context canceled")
    /\ UNCHANGED <<libVars, dsVars, archives, workChan, resultChan, producer, merger,
                   fetches, ret>>

AllReturned ==
    /\ producer.pc = "returned"
    /\ \A w \in DOMAIN workers : workers[w].pc = "returned"

\* go func() { g.Wait(); close(resultChan) }(): Wait cancels the context.
CloseResults ==
    /\ AllReturned
    /\ ~resultChan.closed
    /\ resultChan' = [closed |-> TRUE]
    /\ ctx' = [ctx EXCEPT !.done = TRUE]
    /\ UNCHANGED <<libVars, dsVars, archives, workChan, producer, workers, merger, grp,
                   fetches, ret>>

\* The body of the range over resultChan.
MergeResult ==
    /\ merger.pc = "merge"
    /\ merger' = [pc |-> "range", miniMap |-> EmptyMap,
                  m |-> Merge(merger.m, merger.miniMap)]
    /\ UNCHANGED <<libVars, dsVars, archives, workChan, resultChan, producer, workers, grp,
                   ctx, fetches, ret>>

\* resultChan is closed: g.Wait() gives the error of the group, and
\* NewArchiveMapper returns nil and the error, or the mapper.
NewArchiveMapperReturn ==
    /\ merger.pc = "range"
    /\ resultChan.closed
    /\ merger' = [merger EXCEPT !.pc = "returned"]
    /\ ret' = IF grp.err # NoErr
              THEN [returned |-> TRUE, mapper |-> Nil, err |-> grp.err]
              ELSE [returned |-> TRUE,
                    mapper |-> [kind |-> "ArchiveMapper", m |-> merger.m],
                    err |-> NoErr]
    /\ UNCHANGED <<libVars, dsVars, archives, workChan, resultChan, producer, workers, grp,
                   ctx, fetches>>

\* The context given to NewArchiveMapper is cancelled: by the group of
\* Mappers, when EncodingTable fails, or by the caller of Update.
ParentCancel ==
    /\ \E u \in Sequential : upd[u].pc = "mappers"
    /\ ~ctx.parent
    /\ ctx' = [done |-> TRUE, parent |-> TRUE]
    /\ UNCHANGED <<libVars, dsVars, archives, workChan, resultChan, producer, workers, merger,
                   grp, fetches, ret>>

\* Mappers returns to update(): nil, nil and the error when the archive
\* mapper or the encoding table failed, both mappers otherwise.  update()
\* returns the error, or goes on to store the mappers.
MappersReturn(u) ==
    LET st == upd[u] IN
    /\ st.pc = "mappers"
    /\ ret.returned
    /\ \E encodingFailed \in (IF ctx.parent THEN BOOLEAN ELSE {FALSE}) :
         IF encodingFailed \/ ret.err # NoErr
         THEN Step([Cur EXCEPT !.upd[u] = Failed(st, "retrieving mappers")])
         ELSE Step([Cur EXCEPT !.upd[u] =
                       [st EXCEPT !.pc = "installMappers",
                                  !.encodingMapper =
                                      NewEncodingMapper(st.buildConfig.Encoding.CDNHash),
                                  !.archiveMapper = ret.mapper]])

----------------------------------------------------------------------------
(* The datastore with one Update at a time; Track and Client run between   *)
(* the lock sections of the running Update.                                *)

\* No encoding file has been given to NewMapper.
NoLookup == [contentHash |-> 0, cdnHash |-> 0, err |-> NoErr]
NoMapper == [file |-> <<>>, made |-> FALSE, err |-> NoErr, keys |-> <<>>,
             lookup |-> NoLookup]

\* Fetch has not been called.
NotFetched == [called |-> FALSE, contentHash |-> 0, err |-> NoErr, stream |-> FALSE]
NoCloser == [r |-> FALSE, c |-> FALSE, op |-> "none", err |-> NoErr, touched |-> FALSE]
NoBody == [calls |-> 0, closed |-> 0]
NoFetch ==
    /\ fetchClient = [EncodingMapper |-> <<>>, ArchiveMapper |-> EmptyMap]
    /\ requests = <<>>
    /\ fetched = NotFetched
    /\ wc = NoCloser
    /\ body = NoBody

\* remainingChunkData: a nil slice, or the bytes of a slice.
NilSlice == [nil |-> TRUE, data |-> <<>>]
Slice(data) == [nil |-> FALSE, data |-> data]

\* NewReader(r) over the input r.
NewReader(r) ==
    [r |-> r, pos |-> 0, seenHeader |-> FALSE, chunks |-> NilSlice, currentChunk |-> 0,
     remainingChunkData |-> NilSlice, out |-> <<>>, reached |-> <<>>,
     n |-> 0, err |-> NoErr]

\* No container is being read.
NoReader == NewReader([magic |-> TRUE, header |-> FALSE, bodies |-> <<>>, infos |-> <<>>])

\* What a call left in the field of the target that is bound to the
\* column: nothing, or the converted value.
NotAssigned == [set |-> FALSE, str |-> "", num |-> 0, list |-> <<>>]

NoCallYet == [op |-> "none", err |-> NoErr, assigned |-> NotAssigned, checked |-> FALSE]

\* NewDecoder(r) over the lines of r: the header line, if any, and the rows.
NoTarget == [ptr |-> FALSE, struct |-> FALSE, bound |-> FALSE,
             type |-> [Kind |-> "", Elem |-> "", Len |-> 0]]

NewDecoder(r) ==
    [r |-> r, pos |-> 0, columns |-> NilSlice, err |-> NoErr, panicked |-> FALSE,
     last |-> NoCallYet, target |-> NoTarget]

NoDecoder == NewDecoder([header |-> <<>>, rows |-> <<>>])

\* The libraries are not in use.
\* No line decoded yet into a byte array f, a zero value of its type.
NoLine == [called |-> FALSE, value |-> <<>>, before |-> <<>>]
NewField(f) == [f |-> f, err |-> NoErr, panicked |-> FALSE, last |-> NoLine,
                lines |-> 0]
NoKeyValue == NewField(<<>>)

\* No lookup made yet in the tree of a path map.
NoGet == [called |-> FALSE, filePath |-> <<>>, err |-> NoErr,
          isFile |-> FALSE, File |-> 0]
NoDirs == [d \in {} |-> <<>>]
PathMap(fileMap) == [fileMap |-> fileMap, made |-> FALSE, flatDents |-> NoDirs,
                     err |-> NoErr, last |-> NoGet]
NoTree == PathMap(<<>>)

LibIdle ==
    /\ enc = NoMapper
    /\ NoFetch
    /\ blte = NoReader
    /\ decoder = NoDecoder
    /\ kv = NoKeyValue
    /\ tree = NoTree

\* Every map is empty and nothing is tracked.
newDatastore ==
    /\ tracking = <<>>
    /\ cdnInfos = EmptyMap
    /\ versionInfos = EmptyMap
    /\ buildConfigs = EmptyMap
    /\ cdnConfigs = EmptyMap
    /\ encodingMappers = EmptyMap
    /\ filenameMappers = EmptyMap
    /\ archiveMappers = EmptyMap
    /\ heap = EmptyMap
    /\ upd = [u \in Updaters |-> IdleFrame]
    /\ snap = NoSnapshot
    /\ dl = [writer |-> "none", locks |-> [u \in Updaters |-> 0]]

Init ==
    /\ newDatastore
    /\ NoCall
    /\ LibIdle

Next ==
    \/ \E t \in Pairs : Track(t[1], t[2])
    \/ \E u \in Sequential : UpdateStart(u)
    \/ \E u \in Sequential : UpdateInfo(u)
    \/ \E u \in Sequential : InstallConfigs(u)
    \/ \E u \in Sequential : ReadMappers(u)
    \/ \E u \in Sequential : InstallMappers(u)
    \/ \E u \in Sequential : ReadFilename(u)
    \/ \E u \in Sequential : InstallFilename(u)
    \/ \E u \in Sequential : Commit(u)
    \/ \E u \in Sequential : Evict(u)
    \/ \E u \in Sequential : UpdateReturn(u)

Spec == Init /\ [][Next]_vars

----------------------------------------------------------------------------
(* The datastore with a caller of Client that keeps the snapshots it gets  *)
(* while Track and Update go on.  One pair is tracked and asked for.       *)

SnapshotPairs == {<<"eu", "herot">>}

NextClient ==
    \/ \E t \in SnapshotPairs : Track(t[1], t[2])
    \/ \E t \in SnapshotPairs : ClientCall(t[1], t[2])
    \/ \E u \in Sequential : UpdateStart(u)
    \/ \E u \in Sequential : UpdateInfo(u)
    \/ \E u \in Sequential : InstallConfigs(u)
    \/ \E u \in Sequential : ReadMappers(u)
    \/ \E u \in Sequential : InstallMappers(u)
    \/ \E u \in Sequential : ReadFilename(u)
    \/ \E u \in Sequential : InstallFilename(u)
    \/ \E u \in Sequential : Commit(u)
    \/ \E u \in Sequential : Evict(u)
    \/ \E u \in Sequential : UpdateReturn(u)

SpecClient == Init /\ [][NextClient]_vars

----------------------------------------------------------------------------
(* One call of NewArchiveMapper, made by the first update of a pair: the   *)
(* pair is tracked, update() has stored the build config and the CDN       *)
(* config of the version, has found neither mapper and has called Mappers. *)
(* The CDN config lists any number of archives up to MaxArchives.          *)

FirstPair == [Region |-> "eu", Program |-> "herot"]

InitAM ==
    \E n \in 0..MaxArchives :
        LET b == 1
            c == 1
            pb == Addr("BuildConfig", "", "", b, 0)
            pc == Addr("CDNConfig", "", "", c, 0)
            cdnConfig == [kind |-> "CDNConfig", Archives |-> ArchiveList(n)]
        IN
        /\ tracking = <<FirstPair>>
        /\ cdnInfos = Put(EmptyMap, FirstPair.Program, EmptyMap)
        /\ versionInfos = Put(EmptyMap, FirstPair.Program, EmptyMap)
        /\ buildConfigs = Put(EmptyMap, b, pb)
        /\ cdnConfigs = Put(EmptyMap, c, pc)
        /\ encodingMappers = EmptyMap
        /\ filenameMappers = EmptyMap
        /\ archiveMappers = EmptyMap
        /\ heap = (pb :> NewBuildConfig(b)) @@ (pc :> cdnConfig)
        /\ upd = [u \in Updaters |->
                     IF u \in Sequential
                     THEN [IdleFrame EXCEPT
                              !.pc = "mappers",
                              !.tracking = <<FirstPair>>,
                              !.before = Missing("CDNInfo missing", FirstPair.Region,
                                                 FirstPair.Program),
                              !.version = [Region |-> FirstPair.Region,
                                           BuildConfig |-> b, CDNConfig |-> c],
                              !.buildConfig = NewBuildConfig(b),
                              !.cdnConfig = cdnConfig]
                     ELSE IdleFrame]
        /\ snap = NoSnapshot
        /\ dl = [writer |-> "update", locks |-> [u \in Updaters |-> IF u = "u1" THEN 1 ELSE 0]]
        /\ Called(ArchiveList(n))
        /\ LibIdle

NextAM ==
    \/ \E w \in 1..archiveConcurrentIndexFetches : ProducerSend(w)
    \/ ProducerCancelled
    \/ ProducerFinish
    \/ \E w \in 1..archiveConcurrentIndexFetches : WorkerExit(w)
    \/ \E w \in 1..archiveConcurrentIndexFetches : WorkerFetch(w)
    \/ \E w \in 1..archiveConcurrentIndexFetches : WorkerSend(w)
    \/ \E w \in 1..archiveConcurrentIndexFetches : WorkerCancelled(w)
    \/ CloseResults
    \/ MergeResult
    \/ NewArchiveMapperReturn
    \/ ParentCancel
    \/ \E u \in Sequential : MappersReturn(u)
    \/ \E u \in Sequential : InstallMappers(u)

SpecAM == InitAM /\ [][NextAM]_vars

----------------------------------------------------------------------------
(* Properties of the datastore. *)

AllPairs == {<<r, p>> : r \in Regions, p \in Programs}

Committed == {t \in AllPairs : HasEntry(versionInfos, t[1], t[2])}

\* Every object the artifact maps hold is the fully built artifact of its key.
CompleteArtifacts ==
    /\ \A h \in DOMAIN buildConfigs : heap[buildConfigs[h]] = NewBuildConfig(h)
    /\ \A h \in DOMAIN cdnConfigs : heap[cdnConfigs[h]] = NewCDNConfig(h)
    /\ \A h \in DOMAIN encodingMappers :
           heap[encodingMappers[h]] = NewEncodingMapper(EncodingHashOf(h))
    /\ \A h \in DOMAIN filenameMappers : heap[filenameMappers[h]] = NewTree(RootHashOf(h))
    /\ \A h \in DOMAIN archiveMappers :
           heap[archiveMappers[h]] = NewArchiveMapperObj(ArchivesOf(h))

\* The number of the last update() of the pass that failed, 0 if none did.
LastFailed(attempts) ==
    LET F == {i \in 1..Len(attempts) : attempts[i].failed}
    IN  IF F = {} THEN 0 ELSE CHOOSE i \in F : \A j \in F : j <= i

\* C1: with Track calls and Update calls that do not overlap, and whatever
\* step of whatever update fails, every pair that has a versionInfos entry
\* has all five artifacts under the hashes of that entry: Client returns a
\* snapshot for it and no "missing" error.
C1_ArtifactsComplete ==
    \A t \in Committed : Client(t[1], t[2]).err = NoErr

\* A pass with a failed update has ended, its eviction deleted a CDN config,
\* and a pair is committed.
C1_Witness ==
    /\ upd["u1"].pc = "done"
    /\ upd["u1"].toDelete.cdnConfigs # {}
    /\ \E i \in 1..Len(upd["u1"].attempts) : upd["u1"].attempts[i].failed
    /\ Committed # {}

\* C2: when Update returns, every key of buildConfigs, encodingMappers and
\* filenameMappers is the BuildConfig hash of a versionInfos entry and every
\* key of cdnConfigs and archiveMappers the CDNConfig hash of one; Client
\* returns the build config of the hash the pair is now at.
C2_EvictionLeavesOnlyUsed ==
    \A u \in Sequential :
        upd[u].pc = "done" =>
            /\ DOMAIN buildConfigs \subseteq UsedBuildConfigs
            /\ DOMAIN encodingMappers \subseteq UsedBuildConfigs
            /\ DOMAIN filenameMappers \subseteq UsedBuildConfigs
            /\ DOMAIN cdnConfigs \subseteq UsedCDNConfigs
            /\ DOMAIN archiveMappers \subseteq UsedCDNConfigs
            /\ \A t \in Committed :
                   LET s == Client(t[1], t[2]) IN
                   /\ s.err = NoErr
                   /\ heap[s.BuildConfig] = NewBuildConfig(heap[s.VersionInfo].BuildConfig)

\* A pair has moved to another build: the pass deleted the build config, the
\* encoding mapper and the filename mapper of the build it left.
C2_Witness ==
    /\ upd["u1"].pc = "done"
    /\ upd["u1"].toDelete.buildConfigs # {}
    /\ upd["u1"].toDelete.filenameMappers # {}
    /\ upd["u1"].toDelete.encodingMappers = upd["u1"].toDelete.filenameMappers
    /\ Committed # {}

C4_ReturnsLastError ==
    \A u \in Sequential :
        upd[u].pc = "done" => upd[u].err = LastFailed(upd[u].attempts)

\* C5: a pass attempts every pair of the tracking list as it was when the
\* pass started, in the order of the list, whether or not earlier pairs
\* failed, and the eviction runs after the last pair, also when pairs failed.
C5_EveryPairAttempted ==
    \A u \in Sequential :
        LET st == upd[u] IN
        /\ Len(st.attempts) <= Len(st.tracking)
        /\ \A i \in 1..Len(st.attempts) :
               /\ st.attempts[i].region = st.tracking[i].Region
               /\ st.attempts[i].program = st.tracking[i].Program
        /\ st.toDelete.ran => Len(st.attempts) = Len(st.tracking)
        /\ st.pc = "done" => st.toDelete.ran

\* A pass over two pairs has ended with both updates failed.
C5_Witness ==
    /\ upd["u1"].pc = "done"
    /\ upd["u1"].toDelete.ran
    /\ Len(upd["u1"].attempts) = 2
    /\ upd["u1"].attempts[1].failed
    /\ upd["u1"].attempts[2].failed

\* C6: nothing that happens after Client has returned invalidates the
\* snapshot: through later updates, the replacement of the pair's version
\* and the eviction of the snapshot's hashes, its seven fields are the
\* objects they were, alive, with the contents they had.
C6_SnapshotStaysValid ==
    snap.err = NoErr =>
        \A f \in SnapshotFields :
            /\ snap[f] \in DOMAIN heap
            /\ heap[snap[f]] = snap.seen[f]

\* The pair has moved to another build and another CDN config since the
\* snapshot was taken, and the eviction has deleted the snapshot's hashes.
C6_Witness ==
    /\ snap.err = NoErr
    /\ upd["u1"].pc = "done"
    /\ snap.seen["VersionInfo"].BuildConfig \in upd["u1"].toDelete.buildConfigs
    /\ snap.seen["VersionInfo"].CDNConfig \in upd["u1"].toDelete.archiveMappers
    /\ snap["VersionInfo"] \notin Inner(versionInfos)
    /\ snap["FilenameMapper"] \notin Range(filenameMappers)

\* C7: Track is idempotent: a pair appears once in Tracking() however often
\* it is tracked, and a pass updates it once.
C7_TrackIdempotent ==
    /\ \A i, j \in 1..Len(Tracking) : Tracking[i] = Tracking[j] => i = j
    /\ \A u \in Sequential :
           \A i, j \in 1..Len(upd[u].attempts) :
               (/\ upd[u].attempts[i].region = upd[u].attempts[j].region
                /\ upd[u].attempts[i].program = upd[u].attempts[j].program) => i = j

\* C8 as stated: the encoding mapper of the snapshot of an updated pair is
\* the entry of encodingMappers under the key BuildConfig.Encoding.CDNHash of
\* the snapshot.
C8_KeyedByEncodingHash ==
    \A t \in Committed :
        LET s == Client(t[1], t[2]) IN
        /\ s.err = NoErr
        /\ heap[s.BuildConfig].Encoding.CDNHash \in DOMAIN encodingMappers
        /\ encodingMappers[heap[s.BuildConfig].Encoding.CDNHash] = s.EncodingMapper

\* C8: the encoding mapper of the snapshot of an updated pair is the entry of
\* encodingMappers under the key VersionInfo.BuildConfig, the hash of the
\* build config itself; the mapper is the table of the encoding file named
\* by BuildConfig.Encoding.CDNHash, which is another hash.
C8_KeyedByBuildConfig ==
    \A t \in Committed :
        LET s == Client(t[1], t[2]) IN
        /\ s.err = NoErr
        /\ heap[s.VersionInfo].BuildConfig \in DOMAIN encodingMappers
        /\ encodingMappers[heap[s.VersionInfo].BuildConfig] = s.EncodingMapper
        /\ heap[s.EncodingMapper] = NewEncodingMapper(heap[s.BuildConfig].Encoding.CDNHash)
        /\ heap[s.BuildConfig].Encoding.CDNHash # heap[s.VersionInfo].BuildConfig

\* Two pairs are committed at different builds.
C8_Witness ==
    /\ Cardinality(Committed) = 2
    /\ Cardinality(UsedBuildConfigs) = 2
    /\ upd["u1"].pc = "done"

----------------------------------------------------------------------------
(* Properties of NewArchiveMapper. *)

\* The entries of the index of archive a, by key.
IndexMap(a) ==
    [k \in {IndexEntries(a)[j].key : j \in 1..EntryCount(a)} |->
        LET j == CHOOSE i \in 1..EntryCount(a) : IndexEntries(a)[i].key = k
        IN  [archive |-> a, size |-> IndexEntries(a)[j].size,
             offset |-> IndexEntries(a)[j].offset]]

\* The index requests that did not give the complete index.
FailedFetches ==
    {a \in DOMAIN fetches : \E i \in 1..Len(fetches[a]) : fetches[a][i] # "ok"}

\* C9: when every index fetch succeeds and the caller does not cancel,
\* NewArchiveMapper returns the union of the maps of the indices, whatever
\* the interleaving of the producer, the workers and the merging goroutine,
\* for fewer archives than workers, as many, or more: every archive is
\* fetched once and no more, every key of every index is in the map and no
\* other, and every entry is the entry of the archive whose index holds it.
C9_UnionOfIndices ==
    /\ \A a \in DOMAIN fetches : Len(fetches[a]) <= 1
    /\ (ret.returned /\ FailedFetches = {} /\ ~ctx.parent) =>
           /\ ret.err = NoErr
           /\ \A a \in Range(archives) : fetches[a] = <<"ok">>
           /\ DOMAIN ret.mapper.m = UNION {DOMAIN IndexMap(a) : a \in Range(archives)}
           /\ \A a \in Range(archives) :
                  \A k \in DOMAIN IndexMap(a) : ret.mapper.m[k] = IndexMap(a)[k]

\* A call with more archives than workers has returned its mapper.
C9_Witness ==
    /\ ret.returned
    /\ ret.err = NoErr
    /\ FailedFetches = {}
    /\ Len(archives) > archiveConcurrentIndexFetches
    /\ Cardinality(DOMAIN ret.mapper.m) > MaxEntries

\* C10: when the fetch or the read of an index fails, NewArchiveMapper
\* cancels the context and returns an error and no mapper, a map that lacks
\* entries of some archive is never returned, and the update stores neither
\* an archive mapper nor an encoding mapper.
C10_FailureReturnsError ==
    /\ (ret.returned /\ FailedFetches # {}) =>
           (ctx.done /\ ret.err # NoErr /\ ret.mapper = Nil)
    /\ (ret.returned /\ ret.err = NoErr) =>
           DOMAIN ret.mapper.m = UNION {DOMAIN IndexMap(a) : a \in Range(archives)}
    /\ FailedFetches # {} => (encodingMappers = EmptyMap /\ archiveMappers = EmptyMap)

\* The index requests that ended in an error buildArchiveMap returns: an
\* error of get, or a read error that is neither EOF nor ErrUnexpectedEOF.
ReportedFailures ==
    {a \in DOMAIN fetches :
        \E i \in 1..Len(fetches[a]) : fetches[a][i] \in {"get error", "read error"}}

\* What holds of C10: for the failures buildArchiveMap reports, the context
\* is cancelled, NewArchiveMapper returns the error and no mapper, and the
\* update stores no mapper.
C10_ReportedFailureReturnsError ==
    /\ ReportedFailures # {} => ctx.done
    /\ (ret.returned /\ ReportedFailures # {}) => (ret.err # NoErr /\ ret.mapper = Nil)
    /\ ReportedFailures # {} => (encodingMappers = EmptyMap /\ archiveMappers = EmptyMap)

----------------------------------------------------------------------------
(* ngdp/encoding: the mapper from content hashes to CDN hashes.  An        *)
(* encoding file is a header, key pages of records (cdnKeyCount, content   *)
(* hash, CDN hashes) closed by zero padding, and the layout tables.  Each  *)
(* page carries whether its md5 equals the one in the key table index.     *)

\* Key pages of an encoding file (h.sizeA).
MaxPages == 2
\* Records of a key page before its zero padding.
MaxPageRecords == 2
\* Content hashes an encoding file may list or a caller may ask for.
MaxContentHash == 3

ContentHashes == 1..MaxContentHash
CDNHashes == 1..MaxHash

ErrUnknownContentHash == "encoding: unknown content hash"
ErrTooManyCDNHashes == "encoding: multiple CDN hashes listed"

\* cdnKeys of a record: one CDN hash, or the two of them.
CDNHashLists == {<<c>> : c \in CDNHashes} \cup {<<1, 2>>}

\* mapEntry
mapEntries == [contentHash : ContentHashes, cdnHashes : CDNHashLists]

SeqsUpTo(S, n) == UNION {[1..k -> S] : k \in 0..n}

KeyPages == [sum : BOOLEAN, records : SeqsUpTo(mapEntries, MaxPageRecords)]

\* The encoding files: complete ones with any pages, one with a bad header,
\* and one cut off inside the layout tables.
EncodingFiles ==
    [header : {"ok"}, pages : SeqsUpTo(KeyPages, MaxPages), layout : {"ok"}]
    \cup [header : {"bad magic", "bad hash size", "short"}, pages : {<<>>}, layout : {"ok"}]
    \cup [header : {"ok"}, pages : {<<>>}, layout : {"short"}]

\* ContentHash.Less and ContentHash.Equal: the order of the hashes' bytes.
Less(a, b) == a < b
Equal(a, b) == a = b

RECURSIVE Concat(_)
Concat(seqs) == IF seqs = <<>> THEN <<>> ELSE Head(seqs) \o Concat(Tail(seqs))

\* Mapper.init: the records of all pages in file order become m.keys; a bad
\* header, a page whose md5 differs or a short file is an error.
init(file) ==
    IF file.header # "ok"
    THEN [err |-> "encoding: reading header", keys |-> <<>>]
    ELSE IF \E n \in DOMAIN file.pages : ~file.pages[n].sum
    THEN [err |-> "encoding: key table entry hash mismatch", keys |-> <<>>]
    ELSE IF file.layout # "ok"
    THEN [err |-> "encoding: skipping layout table", keys |-> <<>>]
    ELSE [err |-> NoErr,
          keys |-> Concat([n \in DOMAIN file.pages |-> file.pages[n].records])]

\* sort.Search(len(m.keys), !m.keys[n].contentHash.Less(contentHash)), with
\* Go's indices from 0.
RECURSIVE Search(_, _, _, _)
Search(keys, contentHash, i, j) ==
    IF i < j
    THEN LET h == (i + j) \div 2 IN
         IF Less(keys[h + 1].contentHash, contentHash)
         THEN Search(keys, contentHash, h + 1, j)
         ELSE Search(keys, contentHash, i, h)
    ELSE i

\* Mapper.ToCDNHash
ToCDNHash(keys, contentHash) ==
    LET i == Search(keys, contentHash, 0, Len(keys)) IN
    IF i >= Len(keys) \/ ~Equal(keys[i + 1].contentHash, contentHash)
    THEN [cdnHash |-> 0, err |-> ErrUnknownContentHash]
    ELSE IF Len(keys[i + 1].cdnHashes) # 1
    THEN [cdnHash |-> 0, err |-> ErrTooManyCDNHashes]
    ELSE [cdnHash |-> keys[i + 1].cdnHashes[1], err |-> NoErr]

\* NewMapper(r) on an encoding file.
NewMapper ==
    /\ ~enc.made
    /\ \E file \in EncodingFiles :
          enc' = [file |-> file, made |-> TRUE, err |-> init(file).err,
                  keys |-> init(file).keys, lookup |-> NoLookup]
    /\ UNCHANGED exceptEnc

\* m.ToCDNHash(contentHash) on the mapper NewMapper returned.
ToCDNHashCall(contentHash) ==
    /\ enc.made
    /\ enc.err = NoErr
    /\ enc' = [enc EXCEPT !.lookup =
                  [contentHash |-> contentHash,
                   cdnHash |-> ToCDNHash(enc.keys, contentHash).cdnHash,
                   err |-> ToCDNHash(enc.keys, contentHash).err]]
    /\ UNCHANGED exceptEnc

NextMapper ==
    \/ NewMapper
    \/ \E contentHash \in ContentHashes : ToCDNHashCall(contentHash)

SpecMapper == Init /\ [][NextMapper]_vars

\* The records emitted while parsing the file of the mapper, page by page.
Emitted == Concat([n \in DOMAIN enc.file.pages |-> enc.file.pages[n].records])

\* The content hashes of the emitted records ascend strictly.
SortedUnique ==
    \A a, b \in DOMAIN Emitted : a < b => Emitted[a].contentHash < Emitted[b].contentHash

\* What the lookup of every emitted record and of every other hash has to be.
LookupAgrees ==
    /\ \A n \in DOMAIN Emitted :
          Emitted[n].contentHash = enc.lookup.contentHash =>
             IF Len(Emitted[n].cdnHashes) = 1
             THEN enc.lookup.err = NoErr /\ enc.lookup.cdnHash = Emitted[n].cdnHashes[1]
             ELSE enc.lookup.err = ErrTooManyCDNHashes
    /\ (\A n \in DOMAIN Emitted : Emitted[n].contentHash # enc.lookup.contentHash)
          => enc.lookup.err = ErrUnknownContentHash

\* C14: for every record (k, vs) emitted while parsing, in whatever order
\* the records appear in the pages, ToCDNHash(k) is vs[0] when vs has one
\* element and the Ambiguous error when it has more, and ToCDNHash of a hash
\* in no record is the NotFound error.
C14_LookupOfEveryEntry ==
    (enc.made /\ enc.err = NoErr /\ enc.lookup # NoLookup) => LookupAgrees

\* What holds of C14: the lookups agree with the records when the content
\* hashes of the file ascend strictly.
C14_LookupOfSortedFile ==
    (enc.made /\ enc.err = NoErr /\ enc.lookup # NoLookup /\ SortedUnique) => LookupAgrees

----------------------------------------------------------------------------
(* ngdp/client: Client.Fetch, and the wrappedCloser it returns.            *)

\* Calls of resp.Body.Close that the model follows.
MaxCloseCalls == 3

StatusOK == 200
StatusPartialContent == 206
StatusNotFound == 404

\* What http.Client.Do may give for a request: an error, or a response
\* with some status.
Answers ==
    [err : {"transport"}, status : {0}]
    \cup [err : {NoErr}, status : {StatusOK, StatusPartialContent, StatusNotFound}]

\* ArchiveEntry: the place of the file with CDN hash h inside the archive
\* of the model.
ArchiveEntryOf(h) == [Archive |-> ArchiveList(1)[1], Size |-> h, Offset |-> 2 * h - 1]

\* ArchiveMapper.m over any of the CDN hashes.
ArchiveMaps == {[h \in S |-> ArchiveEntryOf(h)] : S \in SUBSET CDNHashes}

\* m.keys of a mapper made from a file of one key page.
MapperKeys ==
    {init([header |-> "ok", pages |-> <<[sum |-> TRUE, records |-> rs]>>,
           layout |-> "ok"]).keys : rs \in SeqsUpTo(mapEntries, MaxPageRecords)}

\* ArchiveMapper.Map
Map(m, in) ==
    IF in \in DOMAIN m
    THEN [entry |-> m[in], ok |-> TRUE]
    ELSE [entry |-> [Archive |-> 0, Size |-> 0, Offset |-> 0], ok |-> FALSE]

\* cdnURL of the client's CDN: the content type, the hash and the suffix
\* are what tells two URLs of one CDN apart.
cdnURL(contentType, cdnHash, suffix) ==
    [contentType |-> contentType, cdnHash |-> cdnHash, suffix |-> suffix]

NoRange == <<>>

\* A faulty request: a file inside an archive is asked for without a Range.
FetchRequestWhole(c, cdnHash) ==
    LET in == Map(c.ArchiveMapper, cdnHash) IN
    IF in.ok
    THEN [url |-> cdnURL("data", in.entry.Archive, ""), Range |-> NoRange,
          want |-> StatusOK]
    ELSE [url |-> cdnURL("data", cdnHash, ""), Range |-> NoRange, want |-> StatusOK]

\* A request that was handed to c.LowLevelClient.do, with what came back.
Issued(req, answer) == [url |-> req.url, Range |-> req.Range, answer |-> answer]

\* The request Fetch makes for a CDN hash, and the status it wants.
FetchRequest(c, cdnHash) ==
    LET in == Map(c.ArchiveMapper, cdnHash) IN
    IF in.ok
    THEN [url |-> cdnURL("data", in.entry.Archive, ""),
          Range |-> <<in.entry.Offset, in.entry.Offset + in.entry.Size>>,
          want |-> StatusPartialContent]
    ELSE [url |-> cdnURL("data", cdnHash, ""), Range |-> NoRange, want |-> StatusOK]

\* A faulty Fetch: the request is made before the lookup's error is looked at.
FetchOutcomeRequestFirst(c, h, answer) ==
    LET look == ToCDNHash(c.EncodingMapper, h)
        req == FetchRequest(c, look.cdnHash)
    IN
    IF look.err # NoErr
    THEN [requests |-> <<Issued(req, answer)>>, err |-> look.err, stream |-> FALSE]
    ELSE IF answer.err # NoErr
    THEN [requests |-> <<Issued(req, answer)>>, err |-> answer.err, stream |-> FALSE]
    ELSE IF answer.status # req.want
    THEN [requests |-> <<Issued(req, answer)>>, err |-> "bad status", stream |-> FALSE]
    ELSE [requests |-> <<Issued(req, answer)>>, err |-> NoErr, stream |-> TRUE]

\* The outcome of Fetch(h) when the request is answered by answer.
FetchOutcome(c, h, answer) ==
    LET look == ToCDNHash(c.EncodingMapper, h)
        req == FetchRequest(c, look.cdnHash)
    IN
    IF look.err # NoErr
    THEN [requests |-> <<>>, err |-> look.err, stream |-> FALSE]
    ELSE IF answer.err # NoErr
    THEN [requests |-> <<Issued(req, answer)>>,
          err |-> answer.err, stream |-> FALSE]
    ELSE IF answer.status # req.want
    THEN [requests |-> <<Issued(req, answer)>>,
          err |-> "bad status", stream |-> FALSE]
    ELSE [requests |-> <<Issued(req, answer)>>,
          err |-> NoErr, stream |-> TRUE]

\* c.Fetch(ctx, h)
Fetch ==
    /\ ~fetched.called
    /\ \E h \in ContentHashes, answer \in Answers :
          LET out == FetchOutcome(fetchClient, h, answer) IN
          /\ requests' = requests \o out.requests
          /\ fetched' = [called |-> TRUE, contentHash |-> h, err |-> out.err,
                         stream |-> out.stream]
          /\ wc' = IF out.stream THEN [NoCloser EXCEPT !.r = TRUE, !.c = TRUE] ELSE wc
    /\ UNCHANGED <<exceptFetch, fetchClient, body>>

\* wc.Read(b)
Read ==
    /\ fetched.stream
    /\ wc' = [wc EXCEPT !.op = "Read",
                        !.err = IF ~wc.r THEN "io: read/write on closed pipe" ELSE NoErr,
                        !.touched = FALSE]
    /\ UNCHANGED <<exceptFetch, fetchClient, requests, fetched, body>>

\* A faulty Close: the fields are left as they were.
CloseOutcomeKeeps(w, fails) ==
    IF ~w.c
    THEN [w EXCEPT !.op = "Close", !.err = NoErr, !.touched = FALSE]
    ELSE IF fails
    THEN [w EXCEPT !.op = "Close", !.err = "close", !.touched = TRUE]
    ELSE [w EXCEPT !.op = "Close", !.err = NoErr, !.touched = TRUE]

\* The fields and the result of wc.Close() when the Close of the body
\* fails or not.
CloseOutcome(w, fails) ==
    IF ~w.c
    THEN [w EXCEPT !.op = "Close", !.err = NoErr, !.touched = FALSE]
    ELSE IF fails
    THEN [w EXCEPT !.op = "Close", !.err = "close", !.touched = TRUE]
    ELSE [r |-> FALSE, c |-> FALSE, op |-> "Close", err |-> NoErr, touched |-> TRUE]

\* wc.Close()
Close ==
    /\ fetched.stream
    /\ body.calls < MaxCloseCalls
    /\ \E fails \in BOOLEAN :
          LET out == CloseOutcome(wc, fails) IN
          /\ wc' = out
          /\ body' = IF out.touched
                     THEN [calls |-> body.calls + 1,
                           closed |-> body.closed + (IF out.err = NoErr THEN 1 ELSE 0)]
                     ELSE body
    /\ UNCHANGED <<exceptFetch, fetchClient, requests, fetched>>

\* A client with any mappers, before its Fetch.
InitFetch ==
    /\ newDatastore
    /\ NoCall
    /\ enc = NoMapper
    /\ fetchClient \in [EncodingMapper : MapperKeys, ArchiveMapper : ArchiveMaps]
    /\ requests = <<>>
    /\ fetched = NotFetched
    /\ wc = NoCloser
    /\ body = NoBody
    /\ blte = NoReader
    /\ decoder = NoDecoder
    /\ kv = NoKeyValue
    /\ tree = NoTree

NextFetch ==
    \/ Fetch
    \/ Read
    \/ Close

SpecFetch == InitFetch /\ [][NextFetch]_vars

\* The lookup Fetch starts with, for the hash it was called with.
FetchLookup == ToCDNHash(fetchClient.EncodingMapper, fetched.contentHash)

\* C11: when EncodingMapper.ToCDNHash returns NotFound or Ambiguous, Fetch
\* returns that error and issues no HTTP request.
C11_FailsFastOnLookup ==
    (fetched.called /\ FetchLookup.err \in {ErrUnknownContentHash, ErrTooManyCDNHashes})
        => /\ fetched.err = FetchLookup.err
           /\ ~fetched.stream
           /\ requests = <<>>

\* Fetch was called with an ambiguous hash on a client whose archive mapper
\* knows CDN hashes, and returned the error.
C11_Witness ==
    /\ fetched.called
    /\ FetchLookup.err = ErrTooManyCDNHashes
    /\ fetched.err = ErrTooManyCDNHashes
    /\ DOMAIN fetchClient.ArchiveMapper = CDNHashes

\* C12: for a content hash with a single CDN hash Fetch issues exactly one
\* request: a GET of the containing archive with Range offset-(offset+size)
\* that must answer 206 when the archive mapper has the CDN hash, a GET of
\* the CDN hash's own data URL that must answer 200 otherwise; any other
\* status is an error and no stream is returned.
C12_OneRequest ==
    (fetched.called /\ FetchLookup.err = NoErr) =>
        LET h == FetchLookup.cdnHash
            m == fetchClient.ArchiveMapper
        IN
        /\ Len(requests) = 1
        /\ requests[1].url.contentType = "data" /\ requests[1].url.suffix = ""
        /\ h \in DOMAIN m =>
              /\ requests[1].url.cdnHash = m[h].Archive
              /\ requests[1].Range = <<m[h].Offset, m[h].Offset + m[h].Size>>
              /\ fetched.stream <=> (requests[1].answer.err = NoErr
                                     /\ requests[1].answer.status = StatusPartialContent)
        /\ h \notin DOMAIN m =>
              /\ requests[1].url.cdnHash = h
              /\ requests[1].Range = NoRange
              /\ fetched.stream <=> (requests[1].answer.err = NoErr
                                     /\ requests[1].answer.status = StatusOK)
        /\ fetched.stream <=> fetched.err = NoErr

\* A file inside an archive was asked for and the server answered 200, not
\* 206: Fetch returned an error and no stream.
C12_Witness ==
    /\ fetched.called
    /\ FetchLookup.err = NoErr
    /\ FetchLookup.cdnHash \in DOMAIN fetchClient.ArchiveMapper
    /\ Len(requests) = 1
    /\ requests[1].answer.status = StatusOK
    /\ fetched.err = "bad status"
    /\ ~fetched.stream

\* C13: closing the stream closes the body; over any Close and Read calls
\* the body is closed once by a Close that succeeds, later Close calls
\* return nil and leave the body alone, Read after it returns the closed
\* pipe error, and a Close whose underlying close failed leaves the stream
\* open for another Close.
C13_ClosedOnce ==
    /\ body.closed <= 1
    /\ (fetched.stream /\ ~wc.c) <=> body.closed = 1
    /\ wc.r <=> wc.c
    /\ (wc.op = "Close" /\ ~wc.touched) => (wc.err = NoErr /\ body.closed = 1)
    /\ (wc.op = "Close" /\ wc.err # NoErr) => (wc.touched /\ wc.c /\ wc.r)
    /\ (wc.op = "Close" /\ wc.err = NoErr) => (~wc.c /\ body.closed = 1)
    /\ (wc.op = "Read" /\ body.closed = 1) => wc.err = "io: read/write on closed pipe"
    /\ (wc.op = "Read" /\ body.closed = 0) => wc.err = NoErr

\* A Close failed, the next one closed the body, and a third Close returned
\* nil without a call of the body's Close.
C13_Witness ==
    /\ body.calls = 2
    /\ body.closed = 1
    /\ wc.op = "Close"
    /\ ~wc.touched
    /\ wc.err = NoErr

----------------------------------------------------------------------------
(* blte: the Reader of a BLTE container.  The input is the magic, whether  *)
(* a header with chunk records follows (hdrLen # 0), the chunk records and *)
(* the chunk bodies; a body is its mode byte and what is stored after it.  *)

\* Chunk records of a container.
MaxChunks == 2
\* Bytes of a chunk's decoded payload.
MaxPayload == 3
\* Largest buffer a caller hands to Read.
MaxBuf == 2

Modes == {"N", "Z"}

ErrBadMagic == "blte: header had bad magic"
EOF == "EOF"

\* The payload of chunk i when it has n bytes.
Payload(i, n) == [j \in 1..n |-> 10 * i + j]

\* zlib: what is stored for a payload, the bytes of a stored stream taken
\* raw, and the payload a zlib stream inflates to.
Deflate(payload) == [zlib |-> TRUE, of |-> payload]
Raw(stored) == IF stored.zlib THEN <<120>> \o stored.of ELSE stored.of
Inflate(stored) == stored.of

\* The body of a chunk in mode cm with the given payload.
Body(cm, payload) ==
    [cm |-> cm, stored |-> IF cm = "Z" THEN Deflate(payload)
                                       ELSE [zlib |-> FALSE, of |-> payload]]

\* md5 of a chunk body, mode byte included.
MD5(b) == <<b.cm, b.stored.zlib, b.stored.of>>

\* chunkInfo of a body: the checksum the header declares for it.
chunkInfo(b) == [checksum |-> MD5(b)]

\* Ways a chunk of the input may be damaged: another checksum in its
\* record, the mode byte of the other mode, a mode byte that is no mode.
Damages == {"none", "checksum", "mode", "unsupported"}

\* Chunk i as the input holds it: its record and its body.
Chunk(i, cm, n, damage) ==
    LET b == Body(cm, Payload(i, n)) IN
    [info |-> IF damage = "checksum" THEN [checksum |-> <<"", FALSE, <<>>>>]
                                     ELSE chunkInfo(b),
     body |-> IF damage = "mode" THEN [b EXCEPT !.cm = IF cm = "N" THEN "Z" ELSE "N"]
              ELSE IF damage = "unsupported" THEN [b EXCEPT !.cm = "?"]
              ELSE b,
     damaged |-> damage # "none",
     payload |-> Payload(i, n)]

\* The containers: without chunk records (one implicit chunk, no checksum)
\* and with k of them, each chunk in either mode and damaged or not.
ChunkChoices == Modes \X (0..MaxPayload) \X Damages

Container(header, choice) ==
    LET cs == [i \in DOMAIN choice |->
                  Chunk(i - 1, choice[i][1], choice[i][2], choice[i][3])]
    IN [magic |-> TRUE, header |-> header,
        infos |-> [i \in DOMAIN cs |-> cs[i].info],
        bodies |-> [i \in DOMAIN cs |-> cs[i].body],
        damaged |-> [i \in DOMAIN cs |-> cs[i].damaged],
        payloads |-> [i \in DOMAIN cs |-> cs[i].payload]]

Containers ==
    {Container(FALSE, c) : c \in [1..1 -> Modes \X (0..MaxPayload) \X {"none", "unsupported"}]}
    \cup {Container(TRUE, c) : c \in SeqsUpTo(ChunkChoices, MaxChunks)}
    \cup {[Container(TRUE, <<>>) EXCEPT !.magic = FALSE]}

\* A faulty readChunk: the checksum of the chunk is not compared.
readChunkUnchecked(s) ==
    LET checked == ~s.chunks.nil IN
    IF checked /\ s.currentChunk >= Len(s.chunks.data)
    THEN [s |-> s, err |-> EOF]
    ELSE IF s.pos >= Len(s.r.bodies)
    THEN [s |-> s, err |-> EOF]
    ELSE LET b == s.r.bodies[s.pos + 1]
             s1 == [s EXCEPT !.pos = @ + 1]
             log(e) == Append(s.reached, [chunk |-> s.pos, err |-> e, out |-> s.out])
         IN
         IF b.cm \notin Modes
         THEN [s |-> [s1 EXCEPT !.reached = log("blte: unsupported compression method")],
               err |-> "blte: unsupported compression method"]
         ELSE IF b.cm = "Z" /\ ~b.stored.zlib
         THEN [s |-> [s1 EXCEPT !.reached = log("zlib: invalid header")],
               err |-> "zlib: invalid header"]
         ELSE LET data == IF b.cm = "Z" THEN Inflate(b.stored) ELSE Raw(b.stored) IN
              [s |-> [s1 EXCEPT !.remainingChunkData = Slice(data), !.reached = log(NoErr)],
               err |-> NoErr]

\* Reader.readChunk: the next body of the input is read whole, decoded into
\* remainingChunkData, and its md5 compared with the chunk record if there
\* are chunk records.
readChunk(s) ==
    LET checked == ~s.chunks.nil IN
    IF checked /\ s.currentChunk >= Len(s.chunks.data)
    THEN [s |-> s, err |-> EOF]
    ELSE IF s.pos >= Len(s.r.bodies)
    THEN [s |-> s, err |-> EOF]
    ELSE LET b == s.r.bodies[s.pos + 1]
             s1 == [s EXCEPT !.pos = @ + 1]
             log(e) == Append(s.reached, [chunk |-> s.pos, err |-> e, out |-> s.out])
         IN
         IF b.cm \notin Modes
         THEN [s |-> [s1 EXCEPT !.reached = log("blte: unsupported compression method")],
               err |-> "blte: unsupported compression method"]
         ELSE IF b.cm = "Z" /\ ~b.stored.zlib
         THEN [s |-> [s1 EXCEPT !.reached = log("zlib: invalid header")],
               err |-> "zlib: invalid header"]
         ELSE LET data == IF b.cm = "Z" THEN Inflate(b.stored) ELSE Raw(b.stored) IN
              IF checked /\ MD5(b) # s.chunks.data[s.currentChunk + 1].checksum
              THEN [s |-> [s1 EXCEPT !.remainingChunkData = Slice(data),
                                     !.reached = log("blte: checksum mismatch")],
                    err |-> "blte: checksum mismatch"]
              ELSE [s |-> [s1 EXCEPT !.remainingChunkData = Slice(data),
                                     !.reached = log(NoErr)],
                    err |-> NoErr]

\* Reader.readHeader: once; with chunk records it ends by reading chunk 0.
readHeader(s) ==
    IF s.seenHeader
    THEN [s |-> s, err |-> NoErr]
    ELSE LET s1 == [s EXCEPT !.seenHeader = TRUE] IN
         IF ~s.r.magic THEN [s |-> s1, err |-> ErrBadMagic]
         ELSE IF ~s.r.header THEN [s |-> s1, err |-> NoErr]
         ELSE readChunk([s1 EXCEPT !.chunks = Slice(s.r.infos)])

\* A faulty copy: what does not fit into b is dropped.
DeliverDrops(s, size) ==
    LET data == s.remainingChunkData.data
        n == Min(size, Len(data))
    IN [s EXCEPT !.remainingChunkData = NilSlice,
                 !.out = @ \o SubSeq(data, 1, n),
                 !.n = n, !.err = NoErr]

\* n := copy(b, r.remainingChunkData) and what follows it in Read.
Deliver(s, size) ==
    LET data == s.remainingChunkData.data
        n == Min(size, Len(data))
        rest == SubSeq(data, n + 1, Len(data))
    IN [s EXCEPT !.remainingChunkData = IF rest = <<>> THEN NilSlice ELSE Slice(rest),
                 !.out = @ \o SubSeq(data, 1, n),
                 !.n = n, !.err = NoErr]

\* Reader.Read(b) with len(b) = size: the Reader after it, n and err.
ReaderRead(s, size) ==
    LET h == readHeader(s) IN
    IF h.err # NoErr
    THEN [h.s EXCEPT !.n = 0, !.err = h.err]
    ELSE IF ~h.s.remainingChunkData.nil
    THEN Deliver(h.s, size)
    ELSE LET c == readChunk([h.s EXCEPT !.currentChunk = @ + 1]) IN
         IF c.err # NoErr
         THEN [c.s EXCEPT !.n = 0, !.err = c.err]
         ELSE Deliver(c.s, size)

\* A caller reads on until a Read fails, and a few times more at the end of
\* the stream.
BlteRead ==
    /\ blte.err \in {NoErr, EOF}
    /\ blte.currentChunk <= Len(blte.r.bodies) + 1
    /\ \E size \in 0..MaxBuf : blte' = ReaderRead(blte, size)
    /\ UNCHANGED exceptBlte

InitBlte ==
    /\ newDatastore
    /\ NoCall
    /\ enc = NoMapper
    /\ NoFetch
    /\ blte \in {NewReader(r) : r \in Containers}
    /\ decoder = NoDecoder
    /\ kv = NoKeyValue
    /\ tree = NoTree

NextBlte == BlteRead

SpecBlte == InitBlte /\ [][NextBlte]_vars

\* The decoded payloads of the first k chunks of the input, in order.
PayloadsUpTo(k) == Concat([i \in 1..k |-> blte.r.payloads[i]])

\* C15: when the container has chunk records and the md5 of chunk i's body
\* differs from the declared one, the Read that reaches chunk i returns an
\* error, and the bytes delivered before it are those of chunks 0..i-1.
C15_FailsAtCorruptChunk ==
    blte.r.header =>
        \A k \in DOMAIN blte.reached :
            LET i == blte.reached[k].chunk IN
            blte.r.damaged[i + 1] =>
                /\ blte.reached[k].err \notin {NoErr, EOF}
                /\ blte.reached[k].out = PayloadsUpTo(i)
                /\ Len(blte.reached) = k => (blte.err = blte.reached[k].err /\ blte.n = 0)

\* The second chunk's record declares another md5; the first chunk was
\* delivered and the Read that reached the second one failed.
C15_Witness ==
    /\ blte.r.header
    /\ Len(blte.r.bodies) = 2
    /\ ~blte.r.damaged[1] /\ blte.r.damaged[2]
    /\ blte.r.infos[2].checksum # MD5(blte.r.bodies[2])
    /\ blte.r.bodies[2].cm \in Modes
    /\ Len(blte.r.payloads[1]) = MaxPayload
    /\ blte.err = "blte: checksum mismatch"
    /\ blte.out = blte.r.payloads[1]

\* No chunk of the input is damaged.
Legal == blte.r.magic /\ \A i \in DOMAIN blte.r.damaged : ~blte.r.damaged[i]

\* C16: for every legal container, with or without chunk records and with
\* any sizes of the caller's buffers, the bytes delivered are the payloads
\* of the chunks in order, each once, and then the end of the stream.
C16_DecodesConcatenation ==
    Legal =>
        /\ blte.err \in {NoErr, EOF}
        /\ \E k \in 0..Len(blte.r.payloads) :
              \E m \in 0..MaxPayload :
                  /\ k < Len(blte.r.payloads) \/ m = 0
                  /\ m > 0 => m <= Len(blte.r.payloads[k + 1])
                  /\ blte.out = PayloadsUpTo(k)
                                \o (IF m = 0 THEN <<>> ELSE SubSeq(blte.r.payloads[k + 1], 1, m))
        /\ blte.err = EOF => blte.out = PayloadsUpTo(Len(blte.r.payloads))
        /\ LET next == ReaderRead(blte, MaxBuf) IN
              \/ next.err = EOF
              \/ next.err = NoErr /\ Len(next.out) > Len(blte.out)
              \/ next.err = NoErr /\ next.pos > blte.pos

\* A container of chunks in both modes was read to the end of the stream
\* with buffers smaller than a chunk.
C16_Witness ==
    /\ Legal
    /\ blte.r.header
    /\ Len(blte.r.bodies) = MaxChunks
    /\ blte.r.bodies[1].cm = "N" /\ blte.r.bodies[2].cm = "Z"
    /\ \A i \in DOMAIN blte.r.payloads : Len(blte.r.payloads[i]) = MaxPayload
    /\ blte.err = EOF
    /\ blte.out = PayloadsUpTo(MaxChunks)
    /\ blte.n = 0

(* A caller that reads on after a Read has failed.  Read keeps no error:   *)
(* the next call runs readHeader, which returns nil once seenHeader is     *)
(* set, and goes on with what the Reader holds.                            *)

\* A Read after a Read that returned an error other than the end of the
\* stream.
BlteReadOn ==
    /\ blte.err \notin {NoErr, EOF}
    /\ blte.currentChunk <= Len(blte.r.bodies) + 1
    /\ \E size \in 0..MaxBuf : blte' = ReaderRead(blte, size)
    /\ UNCHANGED exceptBlte

NextBlteOn == BlteRead \/ BlteReadOn

SpecBlteOn == InitBlte /\ [][NextBlteOn]_vars

\* C30: once a Read has returned an error (bad magic, malformed header,
\* unsupported mode, checksum mismatch), no later Read delivers data: the
\* bytes delivered stay those delivered when the error was returned, and
\* the decoded bytes of a chunk that failed its checksum are not among them.
C30_ErrorsFinal ==
    /\ ~blte.r.magic => blte.out = <<>>
    /\ \A k \in DOMAIN blte.reached :
          blte.reached[k].err # NoErr => blte.out = blte.reached[k].out

\* The part of C30 that holds: the Read that fails delivers nothing.
C30_FailingReadDeliversNothing ==
    blte.err \notin {NoErr, EOF} =>
        /\ blte.n = 0
        /\ \A k \in DOMAIN blte.reached :
              Len(blte.reached) = k /\ blte.reached[k].err # NoErr =>
                  blte.out = blte.reached[k].out

----------------------------------------------------------------------------
(* ngdp/configtable: the Decoder of a table.  The input is a header line   *)
(* and rows; the tables of the model have one column, named A, and a       *)
(* target is a value handed to Decode, whose field A (if it has one) has   *)
(* some type.                                                              *)

\* Rows of a table.
MaxRows == 2

ColTypes == {"string", "hex", "dec"}
ByteLens == {1, 4}

\* column
Columns == [name : {"A"}, colType : ColTypes, byteLen : ByteLens]

\* Header lines: one column, or a line readHeader rejects.
HeaderLines ==
    {[bad |-> FALSE, columns |-> <<c>>] : c \in Columns}
    \cup {[bad |-> TRUE, columns |-> <<>>]}

\* Cells of a row.
Values == {"s", "7", "300", "0a", "0a0b"}

\* Rows: one cell, or one cell too many.
Rows == {<<v>> : v \in Values} \cup {<<"s", "s">>}

\* The inputs: the empty one, and a header line with rows.
Tables ==
    {[header |-> <<>>, rows |-> <<>>]}
    \cup [header : {<<h>> : h \in HeaderLines}, rows : SeqsUpTo(Rows, MaxRows)]

\* reflect.Type of a field: its kind, the kind of its elements, its length.
Type(kind, elem, len) == [Kind |-> kind, Elem |-> elem, Len |-> len]

IntKinds == {"int", "int8", "int16", "int32", "int64",
             "uint", "uint8", "uint16", "uint32", "uint64"}

FieldTypes ==
    {Type(k, "", 0) : k \in {"string", "int8", "uint8", "int32", "int64", "uint", "bool", "float64"}}
    \cup {Type("slice", e, 0) : e \in {"string", "uint8", "int"}}
    \cup {Type("array", "uint8", n) : n \in ByteLens}

\* What Decode may be given: a struct that is no pointer, a pointer to a
\* string, a pointer to a struct without a field for the column, and a
\* pointer to a struct whose exported field A has some type.
Targets ==
    {[ptr |-> FALSE, struct |-> TRUE, bound |-> FALSE, type |-> Type("string", "", 0)],
     [ptr |-> TRUE, struct |-> FALSE, bound |-> FALSE, type |-> Type("string", "", 0)],
     [ptr |-> TRUE, struct |-> TRUE, bound |-> FALSE, type |-> Type("string", "", 0)]}
    \cup [ptr : {TRUE}, struct : {TRUE}, bound : {TRUE}, type : FieldTypes]

\* strconv: the number a cell is in base 10, or -1 when it is none.
ParseDecimal(value) ==
    IF value = "7" THEN 7 ELSE IF value = "300" THEN 300 ELSE -1

\* hex.DecodeString: whether the cell is hex, and its bytes.
DecodeString(value) ==
    IF value = "0a" THEN [err |-> NoErr, bytes |-> <<10>>]
    ELSE IF value = "0a0b" THEN [err |-> NoErr, bytes |-> <<10, 11>>]
    ELSE [err |-> "encoding/hex: invalid", bytes |-> <<>>]

RECURSIVE Pow2(_)
Pow2(n) == IF n = 0 THEN 1 ELSE 2 * Pow2(n - 1)

\* Whether the number v of a cell is below 2^bits; every number of a cell
\* of the model is below 2^16.
Fits(v, bits) == bits >= 16 \/ v < Pow2(bits)

\* A faulty line: an error the decoder kept is reported as the end of the
\* input.
lineEndsOnError(d) ==
    IF d.err # NoErr
    THEN [d |-> d, n |-> 0, err |-> EOF]
    ELSE IF d.pos >= Len(d.r.header) + Len(d.r.rows)
    THEN [d |-> [d EXCEPT !.err = EOF], n |-> 0, err |-> EOF]
    ELSE [d |-> [d EXCEPT !.pos = @ + 1], n |-> d.pos + 1, err |-> NoErr]

\* Decoder.line: the number of the line scanned, or the error, which the
\* decoder keeps.
line(d) ==
    IF d.err # NoErr
    THEN [d |-> d, n |-> 0, err |-> d.err]
    ELSE IF d.pos >= Len(d.r.header) + Len(d.r.rows)
    THEN [d |-> [d EXCEPT !.err = EOF], n |-> 0, err |-> EOF]
    ELSE [d |-> [d EXCEPT !.pos = @ + 1], n |-> d.pos + 1, err |-> NoErr]

\* Decoder.readHeader
readTableHeader(d) ==
    IF ~d.columns.nil
    THEN [d |-> d, err |-> NoErr]
    ELSE LET l == line(d) IN
         IF l.err # NoErr THEN [d |-> l.d, err |-> l.err]
         ELSE IF d.r.header[1].bad
         THEN [d |-> [l.d EXCEPT !.err = "configtable: bad header"],
               err |-> "configtable: bad header"]
         ELSE [d |-> [l.d EXCEPT !.columns = Slice(d.r.header[1].columns)], err |-> NoErr]

\* byteWidth: it panics for a kind that is no integer kind.
byteWidth(k) ==
    IF k \in {"int", "uint", "int32", "uint32"}
    THEN [width |-> 4, unsigned |-> k \in {"uint", "uint32"}, panic |-> FALSE]
    ELSE IF k \in {"int8", "uint8"}
    THEN [width |-> 1, unsigned |-> k = "uint8", panic |-> FALSE]
    ELSE IF k \in {"int16", "uint16"}
    THEN [width |-> 2, unsigned |-> k = "uint16", panic |-> FALSE]
    ELSE IF k \in {"int64", "uint64"}
    THEN [width |-> 8, unsigned |-> k = "uint64", panic |-> FALSE]
    ELSE [width |-> 0, unsigned |-> FALSE, panic |-> TRUE]

\* isValidPairing
isValidPairing(from, to) ==
    LET k == to.Kind IN
    IF k = "string" THEN [ok |-> TRUE, panic |-> FALSE]
    ELSE IF from.colType = "string" /\ k = "slice" /\ to.Elem = "string"
    THEN [ok |-> TRUE, panic |-> FALSE]
    ELSE IF from.colType = "dec"
    THEN [ok |-> ~byteWidth(k).panic /\ byteWidth(k).width >= from.byteLen,
          panic |-> byteWidth(k).panic]
    ELSE IF from.colType = "hex" /\ k = "slice" /\ to.Elem = "uint8"
    THEN [ok |-> TRUE, panic |-> FALSE]
    ELSE IF from.colType = "hex" /\ k = "array" /\ to.Elem = "uint8"
    THEN [ok |-> to.Len = from.byteLen, panic |-> FALSE]
    ELSE [ok |-> FALSE, panic |-> FALSE]

Converted(assigned) == [err |-> NoErr, panic |-> FALSE, assigned |-> assigned]
ConvertError(err) == [err |-> err, panic |-> FALSE, assigned |-> NotAssigned]

\* convertTo: what it sets the field to, its error, or its panic.
convertTo(from, value, to) ==
    LET k == to.Kind IN
    IF k = "string"
    THEN Converted([NotAssigned EXCEPT !.set = TRUE, !.str = value])
    ELSE IF from.colType = "string" /\ k = "slice" /\ to.Elem = "string"
    THEN Converted([NotAssigned EXCEPT !.set = TRUE, !.str = value, !.num = 1])
    ELSE IF from.colType = "dec"
    THEN LET bw == byteWidth(k)
             v == ParseDecimal(value)
             bits == IF bw.unsigned THEN bw.width * 8 ELSE bw.width * 8 - 1
         IN IF bw.panic THEN [err |-> NoErr, panic |-> TRUE, assigned |-> NotAssigned]
            ELSE IF v < 0 \/ ~Fits(v, bits) THEN ConvertError("configtable: parsing")
            ELSE Converted([NotAssigned EXCEPT !.set = TRUE, !.num = v])
    ELSE IF from.colType = "hex" /\ k = "slice" /\ to.Elem = "uint8"
    THEN IF DecodeString(value).err # NoErr THEN ConvertError("configtable: parsing")
         ELSE Converted([NotAssigned EXCEPT !.set = TRUE, !.list = DecodeString(value).bytes])
    ELSE IF from.colType = "hex" /\ k = "array" /\ to.Elem = "uint8"
    THEN LET vs == DecodeString(value) IN
         IF vs.err # NoErr THEN ConvertError("configtable: parsing")
         ELSE IF Len(vs.bytes) > to.Len
         THEN [err |-> NoErr, panic |-> TRUE, assigned |-> NotAssigned]
         ELSE Converted([NotAssigned EXCEPT
                            !.set = TRUE,
                            !.list = [j \in 1..to.Len |->
                                         IF j <= to.Len - Len(vs.bytes) THEN 0
                                         ELSE vs.bytes[j - (to.Len - Len(vs.bytes))]]])
    ELSE Converted(NotAssigned)

Returned(d, op, err, assigned, checked) ==
    [d EXCEPT !.last = [op |-> op, err |-> err, assigned |-> assigned, checked |-> checked]]

Panicked(d, op) ==
    [d EXCEPT !.panicked = TRUE,
              !.last = [op |-> op, err |-> NoErr, assigned |-> NotAssigned, checked |-> FALSE]]

\* Decoder.Decode(s): the decoder after it, with what the call returned and
\* what it assigned.
DecodeOutcome(d, s) ==
    LET h == readTableHeader(d) IN
    IF h.err # NoErr THEN Returned(h.d, "Decode", h.err, NotAssigned, FALSE)
    ELSE IF ~s.ptr \/ ~s.struct
    THEN Returned(h.d, "Decode", "configtable: cannot decode into non-struct-pointer",
                  NotAssigned, FALSE)
    ELSE IF s.bound /\ isValidPairing(h.d.columns.data[1], s.type).panic
    THEN Panicked(h.d, "Decode")
    ELSE IF s.bound /\ ~isValidPairing(h.d.columns.data[1], s.type).ok
    THEN Returned(h.d, "Decode", "configtable: cannot decode", NotAssigned, FALSE)
    ELSE LET l == line(h.d) IN
         IF l.err # NoErr THEN Returned(l.d, "Decode", l.err, NotAssigned, TRUE)
         ELSE LET bits == d.r.rows[l.n - 1] IN
              IF Len(bits) # Len(l.d.columns.data)
              THEN Returned([l.d EXCEPT !.err = "configtable: column count mismatch"],
                            "Decode", "configtable: column count mismatch",
                            NotAssigned, TRUE)
              ELSE IF ~s.bound THEN Returned(l.d, "Decode", NoErr, NotAssigned, TRUE)
              ELSE LET c == convertTo(l.d.columns.data[1], bits[1], s.type) IN
                   IF c.panic THEN Panicked(l.d, "Decode")
                   ELSE IF c.err # NoErr
                   THEN Returned([l.d EXCEPT !.err = c.err], "Decode", c.err,
                                 NotAssigned, TRUE)
                   ELSE Returned(l.d, "Decode", NoErr, c.assigned, TRUE)

\* d.Decode(s) for any target.
Decode ==
    /\ ~decoder.panicked
    /\ \E s \in Targets : decoder' = [DecodeOutcome(decoder, s) EXCEPT !.target = s]
    /\ UNCHANGED exceptDecoder

\* d.readHeader() called on its own.
ReadHeader ==
    /\ ~decoder.panicked
    /\ LET h == readTableHeader(decoder) IN
       decoder' = [Returned(h.d, "readHeader", h.err, NotAssigned,
                            decoder.columns.nil) EXCEPT !.target = NoTarget]
    /\ UNCHANGED exceptDecoder

InitTable ==
    /\ newDatastore
    /\ NoCall
    /\ enc = NoMapper
    /\ NoFetch
    /\ blte = NoReader
    /\ decoder \in {NewDecoder(r) : r \in Tables}
    /\ kv = NoKeyValue
    /\ tree = NoTree

NextTable ==
    \/ Decode
    \/ ReadHeader

SpecTable == InitTable /\ [][NextTable]_vars

\* The input is exhausted and the decoder has seen it.
Exhausted == decoder.err = EOF

InTable(from, to) ==
    \/ to.Kind = "string"
    \/ from.colType = "string" /\ to.Kind = "slice" /\ to.Elem = "string"
    \/ from.colType = "dec" /\ to.Kind \in IntKinds /\ byteWidth(to.Kind).width >= from.byteLen
    \/ from.colType = "hex" /\ to.Kind = "slice" /\ to.Elem = "uint8"
    \/ from.colType = "hex" /\ to.Kind = "array" /\ to.Elem = "uint8"

\* The last call was a Decode that bound the column to field A.
PairingTried ==
    /\ decoder.last.op = "Decode"
    /\ ~decoder.columns.nil
    /\ decoder.target.ptr /\ decoder.target.struct /\ decoder.target.bound

\* C18: for every pairing of a column type with a bound field kind that is
\* not in the compatibility table, Decode returns an error, does not
\* crash, and assigns nothing; a DEC column bound to a field that is
\* neither an integer nor a string, and a DEC column wider than the integer
\* field, included.
C18_BadPairingFails ==
    (PairingTried /\ ~InTable(decoder.columns.data[1], decoder.target.type)) =>
        /\ ~decoder.panicked
        /\ decoder.last.err # NoErr
        /\ ~decoder.last.assigned.set

\* What holds of C18: the pairings outside the table fail with an error
\* and assign nothing, except a DEC column bound to a field that is no
\* integer and no string.
C18_BadPairingFailsUnlessDecNonInteger ==
    (/\ PairingTried
     /\ ~InTable(decoder.columns.data[1], decoder.target.type)
     /\ ~(decoder.columns.data[1].colType = "dec" /\ decoder.target.type.Kind \notin IntKinds)) =>
        /\ ~decoder.panicked
        /\ decoder.last.err # NoErr
        /\ ~decoder.last.assigned.set


(***************************************************************************)
(* keyvalue: setValue of a hex value into a fixed byte array               *)
(* (src/ngdp/keyvalue/keyvalue.go).  A value is the sequence of its        *)
(* characters, each character given by the number it stands for as a hex   *)
(* digit, or NotHex for a character that is no hex digit.                  *)
(***************************************************************************)

\* The longest byte array, the most characters of a value, and the most
\* lines of one file that name the field.
MaxArrayLen == 2
MaxValueLen == 4
MaxLines == 2

NotHex == 16
HexChars == {0, 1, 15, NotHex}
HexValues == SeqsUpTo(HexChars, MaxValueLen)

\* The zero value of [n]byte.
ZeroArray(n) == [i \in 1..n |-> 0]

ErrLength == "encoding/hex: odd length hex string"
InvalidByteError == "encoding/hex: invalid byte"

\* hex.DecodeString: two characters make a byte, an odd length or a
\* character that is no hex digit is an error.
hexDecodeString(value) ==
    IF \E i \in 1..(2 * (Len(value) \div 2)) : value[i] = NotHex
    THEN [vh |-> <<>>, err |-> InvalidByteError]
    ELSE IF Len(value) % 2 = 1
    THEN [vh |-> <<>>, err |-> ErrLength]
    ELSE [vh |-> [i \in 1..(Len(value) \div 2) |->
                     16 * value[2 * i - 1] + value[2 * i]],
          err |-> NoErr]

\* The loop of setValue's array case, from index n of f downwards (Go's
\* indices, from 0): f.Index(n).SetUint(uint64(vh[n])).  An index outside
\* vh is a run-time panic.
RECURSIVE setArray(_, _, _)
setArray(f, vh, n) ==
    IF n >= 0 /\ n >= Len(f) - Len(vh)
    THEN IF n >= Len(vh)
         THEN [f |-> f, panicked |-> TRUE]
         ELSE setArray([f EXCEPT ![n + 1] = vh[n + 1]], vh, n - 1)
    ELSE [f |-> f, panicked |-> FALSE]

\* setValue(f, value) for f of kind Array with elements of kind Uint8.
setValue(f, value) ==
    LET d == hexDecodeString(value) IN
    IF d.err # NoErr
    THEN [f |-> f, err |-> d.err, panicked |-> FALSE]
    ELSE LET a == setArray(f, d.vh, Len(f) - 1) IN
         [f |-> a.f, err |-> NoErr, panicked |-> a.panicked]

\* One line "key = value" of Decode's loop whose key names the field.
DecodeLine ==
    /\ kv.lines < MaxLines
    /\ ~kv.panicked
    /\ kv.err = NoErr
    /\ \E value \in HexValues :
          LET s == setValue(kv.f, value) IN
          kv' = [f |-> s.f, err |-> s.err, panicked |-> s.panicked,
                 last |-> [called |-> TRUE, value |-> value, before |-> kv.f],
                 lines |-> kv.lines + 1]
    /\ UNCHANGED exceptKV

InitKV ==
    /\ newDatastore
    /\ NoCall
    /\ enc = NoMapper
    /\ NoFetch
    /\ blte = NoReader
    /\ decoder = NoDecoder
    /\ tree = NoTree
    /\ kv \in {NewField(ZeroArray(n)) : n \in 0..MaxArrayLen}

NextKV == DecodeLine

SpecKV == InitKV /\ [][NextKV]_vars

\* The last line gave a hex value of n bytes, n within the length of the
\* array, and the array held zeros before it.
HexIntoArray(n) ==
    /\ kv.last.called
    /\ hexDecodeString(kv.last.value).err = NoErr
    /\ Len(hexDecodeString(kv.last.value).vh) = n
    /\ n <= Len(kv.f)
    /\ kv.last.before = ZeroArray(Len(kv.f))

\* The array holds vh at its right end and zeros before it.
RightAligned(f, vh) ==
    /\ \A i \in 1..Len(vh) : f[Len(f) - Len(vh) + i] = vh[i]
    /\ \A j \in 1..(Len(f) - Len(vh)) : f[j] = 0

\* C19: a hex value of n bytes decoded into a byte array of length L >= n
\* is right-aligned and left-padded with zeros, for every n from 0 to L,
\* without a fault.
C19_RightAlignedPadded ==
    \A n \in 0..MaxValueLen :
        HexIntoArray(n) =>
            /\ ~kv.panicked
            /\ kv.err = NoErr
            /\ RightAligned(kv.f, hexDecodeString(kv.last.value).vh)

\* What holds of C19: the value that fills the array, and the empty value.
C19_FullOrEmptyValue ==
    \A n \in {0, Len(kv.f)} :
        HexIntoArray(n) =>
            /\ ~kv.panicked
            /\ kv.err = NoErr
            /\ RightAligned(kv.f, hexDecodeString(kv.last.value).vh)

\* A value shorter than the array, and not empty, ends in the fault.
C19_ShorterValueFaults ==
    \A n \in 1..MaxValueLen :
        (HexIntoArray(n) /\ n < Len(kv.f)) => kv.panicked


(***************************************************************************)
(* mndx: the filename tree (src/unnamed/part_008).  A name is the sequence *)
(* of its bytes; a path is its components and whether it starts with a     *)
(* slash.  A directory is known by the lower-cased names that lead to it   *)
(* from the root, the keys of the dents maps on the way.                   *)
(***************************************************************************)

\* The most entries of a path map and the most components of a path.
MaxFiles == 2
MaxDepth == 2

\* 'A', 'B', 'a' and 'b'; '.' is what path.Dir gives a path of one
\* component.
Letters == {65, 66, 97, 98}
DotChar == 46
Dot == <<DotChar>>
Names == {<<c>> : c \in Letters}
Paths == [abs : BOOLEAN, parts : SeqsUpTo(Names, MaxDepth) \ {<<>>}]

ErrDirFileNameClash == "mndx: file and directory have clashing names"
ErrExists == "mndx: file has clashing name"
ErrNotExists == "mndx: no such file or directory"
ErrNotADirectory == "mndx: not a directory"

\* A FilenameMap in the order in which range visits it: distinct paths,
\* each with its File, told apart by FileDataID.
FilenameMaps ==
    {[i \in 1..Len(ps) |-> [filePath |-> ps[i], file |-> i]] :
        ps \in {q \in SeqsUpTo(Paths, MaxFiles) :
                   \A i, j \in 1..Len(q) : q[i] = q[j] => i = j}}

\* strings.ToLower
ToLowerChar(c) == IF c >= 65 /\ c <= 90 THEN c + 32 ELSE c
ToLower(name) == [i \in 1..Len(name) |-> ToLowerChar(name[i])]

\* Go's < on strings: the order of the bytes.
StrLess(a, b) ==
    \E i \in 1..(Len(b)) :
        /\ \A k \in 1..(i - 1) : k <= Len(a) /\ a[k] = b[k]
        /\ (i > Len(a) \/ (i - 1 < Len(a) /\ a[i] < b[i]))

\* strings.TrimLeft(path.Clean(filePath), "/") and strings.Split of it: no
\* path here has a component that Clean removes.
Trimmed(filePath) == filePath.parts

\* path.Dir, split on "/", and path.Base, of a trimmed path.
Dir(parts) == IF Len(parts) = 1 THEN <<Dot>> ELSE SubSeq(parts, 1, Len(parts) - 1)
Base(parts) == parts[Len(parts)]

\* td.dents[cname] of the directory dir, a set of at most one entry.
Dent(dents, dir, cname) == {d \in dents : d.dir = dir /\ d.cname = cname}

\* newTreeDirectory().asEntry(name) and newTreeFile(f).asEntry(name)
DirectoryEntry(dir, name) ==
    [dir |-> dir, cname |-> ToLower(name), Name |-> name, isDir |-> TRUE, File |-> 0]
FileEntry(dir, name, f) ==
    [dir |-> dir, cname |-> ToLower(name), Name |-> name, isDir |-> FALSE, File |-> f]

\* TreeDirectory.mkdirs
RECURSIVE mkdirs(_, _, _)
mkdirs(dents, dir, path) ==
    IF Len(path) = 0
    THEN [dents |-> dents, dir |-> dir, err |-> NoErr]
    ELSE LET cname == ToLower(path[1])
             made == IF Dent(dents, dir, cname) = {}
                     THEN dents \cup {DirectoryEntry(dir, path[1])}
                     ELSE dents
             dent == CHOOSE d \in Dent(made, dir, cname) : TRUE
         IN  IF ~dent.isDir
             THEN [dents |-> made, dir |-> dir, err |-> ErrDirFileNameClash]
             ELSE mkdirs(made, dir \o <<cname>>, Tail(path))

\* TreeDirectory.addFile
addFile(dents, dir, f, name) ==
    IF Dent(dents, dir, ToLower(name)) # {}
    THEN [dents |-> dents, err |-> ErrExists]
    ELSE [dents |-> dents \cup {FileEntry(dir, name, f)}, err |-> NoErr]

\* The loop of ToTree from entry i of the map on.
RECURSIVE AddAll(_, _, _)
AddAll(fileMap, i, dents) ==
    IF i > Len(fileMap)
    THEN [dents |-> dents, err |-> NoErr]
    ELSE LET filePath == Trimmed(fileMap[i].filePath)
             m == mkdirs(dents, <<>>, Dir(filePath))
         IN  IF m.err # NoErr
             THEN [dents |-> {}, err |-> m.err]
             ELSE LET a == addFile(m.dents, m.dir, fileMap[i].file, Base(filePath))
                  IN  IF a.err # NoErr
                      THEN [dents |-> {}, err |-> a.err]
                      ELSE AddAll(fileMap, i + 1, a.dents)

\* sort.Sort(dents), by Name.
RECURSIVE SortDents(_)
SortDents(S) ==
    IF S = {}
    THEN <<>>
    ELSE LET m == CHOOSE x \in S : \A y \in S \ {x} : StrLess(x.Name, y.Name)
         IN  <<m>> \o SortDents(S \ {m})

\* TreeDirectory.flatten, from the root down: the flatDents of every
\* directory.
flatten(dents) ==
    [dir \in {<<>>} \cup {d.dir \o <<d.cname>> : d \in {e \in dents : e.isDir}} |->
        SortDents({d \in dents : d.dir = dir})]

\* sort.Search(n, f) with f(i) = strings.ToLower(flatDents[i].Name) >= cname,
\* with Go's indices from 0.
RECURSIVE SearchDents(_, _, _, _)
SearchDents(flatDents, cname, i, j) ==
    IF i < j
    THEN LET h == (i + j) \div 2 IN
         IF StrLess(ToLower(flatDents[h + 1].Name), cname)
         THEN SearchDents(flatDents, cname, h + 1, j)
         ELSE SearchDents(flatDents, cname, i, h)
    ELSE i

NotGot(filePath, err) ==
    [called |-> TRUE, filePath |-> filePath, err |-> err, isFile |-> FALSE, File |-> 0]

\* TreeDirectory.get
RECURSIVE get(_, _, _, _)
get(flat, dir, path, filePath) ==
    LET cname == ToLower(path[1])
        n == Len(flat[dir])
        i == SearchDents(flat[dir], cname, 0, n)
    IN  IF i = n
        THEN NotGot(filePath, ErrNotExists)
        ELSE LET dent == flat[dir][i + 1] IN
             IF ToLower(dent.Name) # cname
             THEN NotGot(filePath, ErrNotExists)
             ELSE IF Len(path) = 1
             THEN [called |-> TRUE, filePath |-> filePath, err |-> NoErr,
                   isFile |-> ~dent.isDir, File |-> dent.File]
             ELSE IF ~dent.isDir
             THEN NotGot(filePath, ErrNotADirectory)
             ELSE get(flat, dir \o <<cname>>, Tail(path), filePath)

\* ToTree(fileMap)
ToTree ==
    /\ ~tree.made
    /\ LET t == AddAll(tree.fileMap, 1, {}) IN
       tree' = [tree EXCEPT !.made = TRUE, !.err = t.err,
                            !.flatDents = IF t.err = NoErr THEN flatten(t.dents)
                                          ELSE NoDirs]
    /\ UNCHANGED exceptTree

\* root.Get(filePath) on the tree that ToTree returned.
Get ==
    /\ tree.made
    /\ tree.err = NoErr
    /\ \E filePath \in Paths :
          tree' = [tree EXCEPT !.last = get(tree.flatDents, <<>>, Trimmed(filePath), filePath)]
    /\ UNCHANGED exceptTree

InitTree ==
    /\ newDatastore
    /\ NoCall
    /\ enc = NoMapper
    /\ NoFetch
    /\ blte = NoReader
    /\ decoder = NoDecoder
    /\ kv = NoKeyValue
    /\ tree \in {PathMap(fileMap) : fileMap \in FilenameMaps}

NextTree ==
    \/ ToTree
    \/ Get

SpecTree == InitTree /\ [][NextTree]_vars

\* The path looked up differs from the path p only in letter case.
SameButCase(q, p) ==
    /\ q.abs = p.abs
    /\ Len(q.parts) = Len(p.parts)
    /\ \A i \in 1..Len(p.parts) : ToLower(q.parts[i]) = ToLower(p.parts[i])

\* The last lookup returned the file of entry e of the map.
GotFileOf(e) ==
    /\ tree.last.err = NoErr
    /\ tree.last.isFile
    /\ tree.last.File = e.file

\* C20: whenever ToTree succeeds on a path map, Get(p') returns the file
\* entry of path p for every p in the map and every p' that differs from p
\* only in letter case, at every depth, files directly under the root
\* included.
C20_CaseInsensitiveGet ==
    (tree.made /\ tree.err = NoErr /\ tree.last.called) =>
        \A i \in 1..Len(tree.fileMap) :
            SameButCase(tree.last.filePath, tree.fileMap[i].filePath) =>
                GotFileOf(tree.fileMap[i])

\* What holds of C20: the lookup of a file below the root, in any case,
\* in a tree whose paths are all lower-case and all below the root.
C20_LowerCaseBelowRoot ==
    (/\ tree.made /\ tree.err = NoErr /\ tree.last.called
     /\ \A i \in 1..Len(tree.fileMap) :
           LET parts == tree.fileMap[i].filePath.parts IN
           Len(parts) > 1 /\ \A k \in 1..Len(parts) : ToLower(parts[k]) = parts[k]) =>
        \A i \in 1..Len(tree.fileMap) :
            SameButCase(tree.last.filePath, tree.fileMap[i].filePath) =>
                GotFileOf(tree.fileMap[i])

\* No lookup of a path of one component returns a file: the files directly
\* under the root hang below a directory named ".".
C20_RootFileNeverFound ==
    (tree.last.called /\ Len(tree.last.filePath.parts) = 1) =>
        ~(tree.last.err = NoErr /\ tree.last.isFile)

\* C20 for the trees without a file directly under the root.
C20_BelowRoot ==
    (/\ tree.made /\ tree.err = NoErr /\ tree.last.called
     /\ \A i \in 1..Len(tree.fileMap) : Len(tree.fileMap[i].filePath.parts) > 1) =>
        \A i \in 1..Len(tree.fileMap) :
            SameButCase(tree.last.filePath, tree.fileMap[i].filePath) =>
                GotFileOf(tree.fileMap[i])


(***************************************************************************)
(* ToTree's name clashes.  The path maps here go one level deeper, over    *)
(* the names "A" and "a", so that a file can sit where another path has a  *)
(* directory below the root's own entries.                                 *)
(***************************************************************************)

\* The most components of a path in these maps.
MaxClashDepth == 3

ClashNames == {<<65>>, <<97>>}
ClashPaths == [abs : {FALSE}, parts : SeqsUpTo(ClashNames, MaxClashDepth) \ {<<>>}]
ClashMaps ==
    {[i \in 1..Len(ps) |-> [filePath |-> ps[i], file |-> i]] :
        ps \in {q \in SeqsUpTo(ClashPaths, MaxFiles) :
                   \A i, j \in 1..Len(q) : q[i] = q[j] => i = j}}

InitClash ==
    /\ newDatastore
    /\ NoCall
    /\ enc = NoMapper
    /\ NoFetch
    /\ blte = NoReader
    /\ decoder = NoDecoder
    /\ kv = NoKeyValue
    /\ tree \in {PathMap(fileMap) : fileMap \in ClashMaps}

NextClash == ToTree

SpecClash == InitClash /\ [][NextClash]_vars

\* The case-folded components of entry i's path.
Folded(i) ==
    LET parts == Trimmed(tree.fileMap[i].filePath) IN
    [k \in 1..Len(parts) |-> ToLower(parts[k])]

\* One path's file name coincides with an intermediate directory of
\* another path.
HasFileDirClash ==
    \E i, j \in 1..Len(tree.fileMap) :
        /\ Len(Folded(i)) < Len(Folded(j))
        /\ SubSeq(Folded(j), 1, Len(Folded(i))) = Folded(i)

\* Two file paths are equal after case-folding.
HasDuplicateEntry ==
    \E i, j \in 1..Len(tree.fileMap) : i # j /\ Folded(i) = Folded(j)

\* C21: whatever the order of the map's entries, ToTree fails with
\* ErrDirFileNameClash whenever a file name coincides with an intermediate
\* directory of another path, with ErrExists whenever two paths are equal
\* after case-folding, and succeeds otherwise.
C21_ClashesClassified ==
    tree.made =>
        tree.err \in
            ((IF HasFileDirClash THEN {ErrDirFileNameClash} ELSE {})
             \cup (IF HasDuplicateEntry THEN {ErrExists} ELSE {})
             \cup (IF ~HasFileDirClash /\ ~HasDuplicateEntry THEN {NoErr} ELSE {}))

\* What holds of C21: the maps without a file at a directory's name are
\* classified as stated.
C21_WithoutFileDirClash ==
    (tree.made /\ ~HasFileDirClash) =>
        tree.err = IF HasDuplicateEntry THEN ErrExists ELSE NoErr

\* C21 for the maps whose paths are all below the root.
C21_ClashesBelowRoot ==
    (tree.made /\ \A i \in 1..Len(tree.fileMap) : Len(Folded(i)) > 1) =>
        (HasFileDirClash => tree.err = ErrDirFileNameClash)


(***************************************************************************)
(* The datastore again: the life of a cached artifact, the writer lock,    *)
(* the inner maps, and two Update calls at once.                           *)
(***************************************************************************)

\* The map of the datastore that holds the objects of a snapshot's field.
ArtifactMap(f) ==
    CASE f = "BuildConfig" -> buildConfigs
      [] f = "CDNConfig" -> cdnConfigs
      [] f = "EncodingMapper" -> encodingMappers
      [] f = "ArchiveMapper" -> archiveMappers
      [] f = "FilenameMapper" -> filenameMappers

\* The object that the caller of update() saw in field f of the pair when
\* update() was entered is still the entry of its hash, if the hash still
\* has an entry.
StillCached(u, f) ==
    LET a == upd[u].before[f] IN
    a[4] \in DOMAIN ArtifactMap(f) => ArtifactMap(f)[a[4]] = a

\* C22: once one of the five maps holds an entry for a hash, no update of a
\* pair overwrites it with another object: while update() runs, every
\* artifact that the pair's snapshot held at its start is still the object
\* stored under its hash.
C22_CachedArtifactKept ==
    \A u \in Updaters :
        upd[u].before.err = NoErr =>
            \A f \in {"BuildConfig", "CDNConfig", "EncodingMapper", "ArchiveMapper",
                      "FilenameMapper"} : StillCached(u, f)

\* What holds of C22: the filename mapper, stored alone and only when it is
\* missing, is never overwritten.
C22_FilenameMapperKept ==
    \A u \in Updaters :
        upd[u].before.err = NoErr => StillCached(u, "FilenameMapper")

\* The update() that Update call u made last has returned; failed tells
\* whether it returned an error.
updateReturned(u, failed) ==
    /\ upd[u].pc = "loop"
    /\ Len(upd[u].attempts) > 0
    /\ upd[u].attempts[Len(upd[u].attempts)].failed = failed

\* C23 as stated: only Update takes the writer lock, and the update of a
\* pair takes it exactly twice.
C23_OnlyUpdateTwicePerPair ==
    /\ dl.writer \in {"none", "update", "Update"}
    /\ \A u \in Updaters : updateReturned(u, FALSE) => dl.locks[u] = 2

\* C23 without Track: the successful update of a pair takes the writer lock
\* exactly twice.
C23_TwicePerPair ==
    \A u \in Updaters : updateReturned(u, FALSE) => dl.locks[u] = 2

\* C23: Track and Update take the writer lock, Client does not.  The
\* update of a pair takes it once for each of the three stores it makes
\* (configs, mappers, filename mapper) and once for the commit: one to four
\* times when it succeeds, at most twice when it fails; Update takes it
\* once more, for the eviction, before it returns.
C23_WriterLockByTrackAndUpdate ==
    /\ dl.writer \in {"none", "Track", "update", "Update"}
    /\ tracking # <<>> => dl.writer # "none"
    /\ \A u \in Updaters :
          /\ updateReturned(u, FALSE) => dl.locks[u] \in 1..4
          /\ updateReturned(u, TRUE) => dl.locks[u] \in 0..2
          /\ upd[u].pc = "commit" => dl.locks[u] \in 0..3
          /\ upd[u].pc = "done" => upd[u].toDelete.ran

\* The update of a pair whose five artifacts were all cached has returned:
\* it took the writer lock once, for the commit, and a caller of Client
\* holds a snapshot.
C23_Witness ==
    /\ updateReturned("u1", FALSE)
    /\ dl.locks["u1"] = 1
    /\ dl.writer = "update"
    /\ snap.err = NoErr

\* The first update of a pair has returned: it took the writer lock four
\* times.
C23_FourLocks == updateReturned("u1", FALSE) /\ dl.locks["u1"] = 4


(***************************************************************************)
(* NewArchiveMapper again: which error it reports, and that it ends.       *)
(***************************************************************************)

ErrCanceled == "context canceled"

\* C24: when a worker's index fetch has returned an error and the caller's
\* context is not cancelled, NewArchiveMapper returns the first error that
\* a goroutine of the group returned, which is the error of a fetch and
\* never the context-cancelled error of the producer or of another worker.
C24_FirstFailureReported ==
    (ret.returned /\ ~ctx.parent /\ ReportedFailures # {}) =>
        /\ ret.err = grp.first
        /\ ret.err # ErrCanceled
        /\ ret.mapper = Nil
        /\ \E a \in ReportedFailures :
              \E i \in 1..Len(fetches[a]) : fetches[a][i] = ret.err

\* A fetch failed, the producer was cancelled before it had sent every
\* archive and a worker dropped its map on cancellation, and the call
\* returned the error of the fetch.
C24_Witness ==
    /\ ret.returned
    /\ ~ctx.parent
    /\ ret.err = "get error"
    /\ producer.i <= Len(archives)
    /\ \E a \in DOMAIN fetches : fetches[a] = <<"ok">>
    /\ merger.m = EmptyMap


(***************************************************************************)
(* The order of the encoding mapper's entries and of a directory's         *)
(* children, which the binary searches rely on.                            *)
(***************************************************************************)

\* C25: after NewMapper has succeeded, m.keys is sorted ascending by content
\* hash, whatever the order of the records inside and across the pages.
C25_KeysSorted ==
    (enc.made /\ enc.err = NoErr) =>
        \A i, j \in DOMAIN enc.keys :
            i < j => ~Less(enc.keys[j].contentHash, enc.keys[i].contentHash)

\* What holds of C25: m.keys is the records in the order of the file.
C25_KeysInFileOrder ==
    (enc.made /\ enc.err = NoErr) => enc.keys = Emitted

\* C26: after ToTree, the children of every directory are sorted ascending
\* by lower-cased name, the order in which get searches them, for any mix
\* of upper- and lower-case names in the same directory.
C26_ChildrenSortedFolded ==
    (tree.made /\ tree.err = NoErr) =>
        \A dir \in DOMAIN tree.flatDents :
            \A i, j \in 1..Len(tree.flatDents[dir]) :
                i < j => StrLess(ToLower(tree.flatDents[dir][i].Name),
                                 ToLower(tree.flatDents[dir][j].Name))

\* What holds of C26: the children are sorted ascending by their names as
\* written.
C26_ChildrenSortedByName ==
    (tree.made /\ tree.err = NoErr) =>
        \A dir \in DOMAIN tree.flatDents :
            \A i, j \in 1..Len(tree.flatDents[dir]) :
                i < j => StrLess(tree.flatDents[dir][i].Name, tree.flatDents[dir][j].Name)


(***************************************************************************)
(* The datastore: the two info maps go together.                           *)
(***************************************************************************)

\* The pairs of a tracking list.
Tracked(list) == {<<list[i].Region, list[i].Program>> : i \in 1..Len(list)}

\* C27: in every state of the datastore, cdnInfos[program][region] is
\* present exactly when versionInfos[program][region] is, and both are
\* objects; the inner maps of the program exist for every tracked pair, in
\* d.tracking and in the copy a running Update holds; hence Client never
\* dereferences a missing VersionInfo and update() never writes to a
\* missing inner map.
C27_InfosTogether ==
    /\ \A r \in Regions, p \in Programs :
          /\ HasEntry(cdnInfos, r, p) <=> HasEntry(versionInfos, r, p)
          /\ HasEntry(cdnInfos, r, p) =>
                /\ cdnInfos[p][r] \in DOMAIN heap
                /\ heap[cdnInfos[p][r]].kind = "CDNInfo"
                /\ versionInfos[p][r] \in DOMAIN heap
                /\ heap[versionInfos[p][r]].kind = "VersionInfo"
          /\ Client(r, p).err # "panic: nil VersionInfo"
    /\ \A t \in Tracked(tracking) \cup UNION {Tracked(upd[u].tracking) : u \in Updaters} :
          t[2] \in DOMAIN cdnInfos /\ t[2] \in DOMAIN versionInfos
    /\ \A u \in Updaters :
          upd[u].pc = "commit" =>
             LET t == upd[u].tracking[upd[u].idx] IN
             t.Program \in DOMAIN cdnInfos /\ t.Program \in DOMAIN versionInfos

\* Two pairs of one program are tracked, one is committed and the update
\* of the other is about to commit.
C27_Witness ==
    /\ Len(tracking) = 2
    /\ HasEntry(versionInfos, "eu", "herot")
    /\ ~HasEntry(cdnInfos, "us", "herot")
    /\ Client("us", "herot").err = "CDNInfo missing"
    /\ upd["u1"].pc = "commit"
    /\ upd["u1"].tracking[upd["u1"].idx].Region = "us"


(***************************************************************************)
(* Two Update calls on the same datastore at once.  Nothing in Update      *)
(* keeps a second call out: each takes and releases d.l section by         *)
(* section, so the sections of the two calls interleave.  One pair is      *)
(* tracked before the calls start.                                         *)
(***************************************************************************)

\* The datastore after newDatastore, one Track and the start of two calls of
\* Update, each with its copy of the tracking list.
InitTwoUpdates ==
    /\ tracking = <<FirstPair>>
    /\ cdnInfos = Put(EmptyMap, FirstPair.Program, EmptyMap)
    /\ versionInfos = Put(EmptyMap, FirstPair.Program, EmptyMap)
    /\ buildConfigs = EmptyMap
    /\ cdnConfigs = EmptyMap
    /\ encodingMappers = EmptyMap
    /\ filenameMappers = EmptyMap
    /\ archiveMappers = EmptyMap
    /\ heap = EmptyMap
    /\ upd = [u \in Updaters |-> [IdleFrame EXCEPT !.pc = "loop",
                                                  !.tracking = <<FirstPair>>]]
    /\ snap = NoSnapshot
    /\ dl = [writer |-> "Track", locks |-> [u \in Updaters |-> 0]]
    /\ NoCall
    /\ LibIdle

NextTwoUpdates ==
    \/ \E u \in Updaters : UpdateInfo(u)
    \/ \E u \in Updaters : InstallConfigs(u)
    \/ \E u \in Updaters : ReadMappers(u)
    \/ \E u \in Updaters : InstallMappers(u)
    \/ \E u \in Updaters : ReadFilename(u)
    \/ \E u \in Updaters : InstallFilename(u)
    \/ \E u \in Updaters : Commit(u)
    \/ \E u \in Updaters : Evict(u)
    \/ \E u \in Updaters : UpdateReturn(u)

SpecTwoUpdates == InitTwoUpdates /\ [][NextTwoUpdates]_vars

\* C28: with two Update calls running at once, an eviction never removes an
\* artifact that the other call's update has stored and will refer to when
\* it commits: whenever no Update is running, every pair with a
\* versionInfos entry has all five artifacts and Client succeeds for it.
C28_CompleteAfterConcurrentUpdates ==
    (\A u \in Updaters : upd[u].pc = "idle") =>
        \A t \in Committed : Client(t[1], t[2]).err = NoErr

----------------------------------------------------------------------------
(* Termination of NewArchiveMapper.  The goroutines of the call are run by *)
(* the Go scheduler: a step of the call that can be taken is taken in the  *)
(* end, and an index fetch returns or aborts.  Whether the context of the  *)
(* caller is cancelled is left open.                                       *)

\* A step of one of the goroutines of the call.
ArchiveMapperStep ==
    \/ \E w \in 1..archiveConcurrentIndexFetches : ProducerSend(w)
    \/ ProducerCancelled
    \/ ProducerFinish
    \/ \E w \in 1..archiveConcurrentIndexFetches : WorkerExit(w)
    \/ \E w \in 1..archiveConcurrentIndexFetches : WorkerFetch(w)
    \/ \E w \in 1..archiveConcurrentIndexFetches : WorkerSend(w)
    \/ \E w \in 1..archiveConcurrentIndexFetches : WorkerCancelled(w)
    \/ CloseResults
    \/ MergeResult
    \/ NewArchiveMapperReturn

SpecAMFair == InitAM /\ [][NextAM]_vars /\ WF_vars(ArchiveMapperStep)

\* The producer and every worker have returned, both channels are closed
\* and NewArchiveMapper has returned.
Terminated ==
    /\ AllReturned
    /\ Len(workers) = workerCount
    /\ workChan.closed
    /\ resultChan.closed
    /\ merger.pc = "returned"
    /\ ret.returned

\* C29: for every number of archives from zero on, in every interleaving,
\* with failing fetches and with or without the cancellation of the
\* caller's context, the call ends: the producer, the
\* min(archiveConcurrentIndexFetches, len(archives)) workers and the
\* goroutine that closes resultChan have exited, resultChan is closed and
\* NewArchiveMapper has returned, and it stays so.
C29_Terminates == <>[]Terminated

\* No goroutine of the call is ever blocked for good: while the call has not
\* ended, one of its goroutines can take a step.
C29_NothingBlocked == Terminated \/ ENABLED ArchiveMapperStep

\* A call with MaxArchives archives has ended after a fetch failed: the
\* producer was cancelled before it had handed out every archive and the
\* error of the fetch was returned.
C29_Witness ==
    /\ Terminated
    /\ Len(archives) = MaxArchives
    /\ producer.i <= Len(archives)
    /\ ret.err \notin {NoErr, ErrCanceled}

\* A call with no archive has ended with an empty mapper.
C29_WitnessNoArchive ==
    /\ Terminated
    /\ archives = <<>>
    /\ workers = <<>>
    /\ ret.err = NoErr

====
